---- MODULE Spec2Model ----
(***************************************************************************)
(* pg-schema-sage: migration replay and schema drift engine.               *)
(*                                                                         *)
(* Strings are TLA+ strings handled character by character (Len, SubSeq,   *)
(* \o), so splitting, trimming, prefix tests and the regular expressions   *)
(* of the source are computed on the text itself.                          *)
(***************************************************************************)
EXTENDS Integers, Sequences, FiniteSets, TLC

VARIABLES
    migrations,   \* replay: the Migration[] handed to compareSchemasWithMigrations
    currentSchema,\* replay: the live DatabaseSchema handed to the same call
    schema,       \* replay: the DatabaseSchema being built by the fold
    idx,          \* replay: position of the for-loop over migrations
    pc,           \* replay: "idle" | "replay" | "done"
    drift,        \* replay: the SchemaDrift returned by the call
    prev,         \* replay: the expected model of the previous call when it replayed the same list
    diffExpected, \* diff: the expected DatabaseSchema handed to compareSchemas
    diffActual,   \* diff: the actual DatabaseSchema handed to compareSchemas
    report,       \* diff: <<the SchemaDrift returned>>, <<>> before the call
    dir,          \* loader: the migrations directory as readdir lists it
    ledger,       \* loader: the applied migrations the last call was given
    result,       \* loader: what the last call returned, <<>> before any call
    fault,        \* loader: the filesystem failure the calls meet, NoFault when none
    fmtUpSql,     \* format: the upSql handed to formatMigrationContent
    fmtDownSql,   \* format: the downSql handed to formatMigrationContent
    fmtContent,   \* format: <<the text formatMigrationContent returned>>, <<>> before
    fmtParsed,    \* format: <<parseMigrationContent of that text>>, <<>> before
    clock,        \* write: the seconds new Date() shows, counted from 12:00:00
    disk,         \* write: the files of the migrations directory, name and content
    calls         \* write: the ToolResults the tool calls returned, oldest first

replayVars == <<migrations, currentSchema, schema, idx, pc, drift, prev>>
diffVars == <<diffExpected, diffActual, report>>
loaderVars == <<dir, ledger, result, fault>>
formatVars == <<fmtUpSql, fmtDownSql, fmtContent, fmtParsed>>
writeVars == <<clock, disk, calls>>
vars == <<replayVars, diffVars, loaderVars, formatVars, writeVars>>

-----------------------------------------------------------------------------
(* Bounds *)

MaxMigrations == 2
MaxEntities == 2
MaxFiles == 3
MaxApplied == 2
MaxLines == 4
MaxCalls == 2
MaxTicks == 2

-----------------------------------------------------------------------------
(* JavaScript string primitives *)

CharAt(s, i) == SubSeq(s, i, i)

LowerAlphabet == "abcdefghijklmnopqrstuvwxyz"
UpperAlphabet == "ABCDEFGHIJKLMNOPQRSTUVWXYZ"
DigitAlphabet == "0123456789"

LowerChars == {CharAt(LowerAlphabet, i) : i \in 1..26}
UpperChars == {CharAt(UpperAlphabet, i) : i \in 1..26}
DigitChars == {CharAt(DigitAlphabet, i) : i \in 1..10}

\* \s of the regular expressions and the characters String.prototype.trim strips
SpaceChars == {" ", "\n", "\t", "\r"}
\* \w of the regular expressions
WordChars == LowerChars \cup UpperChars \cup DigitChars \cup {"_"}

UpperOf == [c \in LowerChars |->
              CharAt(UpperAlphabet, CHOOSE i \in 1..26 : CharAt(LowerAlphabet, i) = c)]
LowerOf == [c \in UpperChars |->
              CharAt(LowerAlphabet, CHOOSE i \in 1..26 : CharAt(UpperAlphabet, i) = c)]

RECURSIVE MapChars(_, _)
\* s with every character in the domain of table replaced by its image
MapChars(s, table) ==
    IF Len(s) = 0 THEN ""
    ELSE IF Len(s) = 1 THEN (IF s \in DOMAIN table THEN table[s] ELSE s)
    ELSE MapChars(SubSeq(s, 1, Len(s) \div 2), table)
         \o MapChars(SubSeq(s, Len(s) \div 2 + 1, Len(s)), table)

toUpperCase(s) == MapChars(s, UpperOf)
toLowerCase(s) == MapChars(s, LowerOf)

startsWith(s, p) == Len(s) >= Len(p) /\ SubSeq(s, 1, Len(p)) = p
endsWith(s, p) == Len(s) >= Len(p) /\ SubSeq(s, Len(s) - Len(p) + 1, Len(s)) = p

OccursAt(s, p, i) == i + Len(p) - 1 <= Len(s) /\ SubSeq(s, i, i + Len(p) - 1) = p

includes(s, p) == \E i \in 1..(Len(s) + 1) : OccursAt(s, p, i)

\* index after the longest run of characters of class cls starting at i
RunEnd(s, cls, i) ==
    CHOOSE j \in i..(Len(s) + 1) :
        /\ j = Len(s) + 1 \/ CharAt(s, j) \notin cls
        /\ \A k \in i..(j - 1) : CharAt(s, k) \in cls

\* index before the longest run of characters of class cls ending at j
RunStart(s, cls, j) ==
    CHOOSE i \in 0..j :
        /\ i = 0 \/ CharAt(s, i) \notin cls
        /\ \A k \in (i + 1)..j : CharAt(s, k) \in cls

trim(s) == SubSeq(s, RunEnd(s, SpaceChars, 1), RunStart(s, SpaceChars, Len(s)))

\* s.split(sep) for a one-character separator: the pieces between the
\* occurrences of sep, always at least one piece
split(s, sep) ==
    LET at == {i \in 1..Len(s) : CharAt(s, i) = sep}
        n == Cardinality(at)
        Nth(k) == IF k = 0 THEN 0
                  ELSE IF k = n + 1 THEN Len(s) + 1
                  ELSE CHOOSE p \in at : Cardinality({q \in at : q < p}) = k - 1
    IN [k \in 1..(n + 1) |-> SubSeq(s, Nth(k - 1) + 1, Nth(k) - 1)]

RECURSIVE join(_, _)
join(parts, sep) ==
    IF parts = <<>> THEN ""
    ELSE IF Len(parts) = 1 THEN parts[1]
    ELSE parts[1] \o sep \o join(Tail(parts), sep)

MapSeq(f(_), s) == [i \in 1..Len(s) |-> f(s[i])]

-----------------------------------------------------------------------------
(* Regular expressions with the i flag, as sequences of elements:          *)
(*   Lit(k)  the literal text k, compared case-insensitively               *)
(*   Ws      \s+                                                           *)
(*   Cap(n)  (\w+), capture group n                                        *)
(*   Opt(p)  (?:p)?, greedy                                                *)
(* Every \w+ and \s+ of the source's patterns is followed by an element    *)
(* that cannot start with a character of its own class, so taking the      *)
(* longest run is the only way they match.                                 *)

Lit(k) == [t |-> "lit", k |-> toUpperCase(k), n |-> 0, p |-> <<>>]
Ws == [t |-> "ws", k |-> "", n |-> 0, p |-> <<>>]
Cap(g) == [t |-> "cap", k |-> "", n |-> g, p |-> <<>>]
Opt(sub) == [t |-> "opt", k |-> "", n |-> 0, p |-> sub]

NoMatch == <<>>
\* an unset capture group is undefined: the source reads it as match[g] || "public"
NoCaptures == [g \in 1..3 |-> ""]

RECURSIVE MatchFrom(_, _, _, _)
\* <<captures>> when pattern pat matches s at position i, NoMatch otherwise
MatchFrom(pat, s, i, caps) ==
    IF pat = <<>> THEN <<caps>>
    ELSE LET e == Head(pat)
             rest == Tail(pat)
         IN CASE e.t = "lit" ->
                   IF i + Len(e.k) - 1 <= Len(s)
                      /\ toUpperCase(SubSeq(s, i, i + Len(e.k) - 1)) = e.k
                   THEN MatchFrom(rest, s, i + Len(e.k), caps)
                   ELSE NoMatch
              [] e.t = "ws" ->
                   LET j == RunEnd(s, SpaceChars, i)
                   IN IF j > i THEN MatchFrom(rest, s, j, caps) ELSE NoMatch
              [] e.t = "cap" ->
                   LET j == RunEnd(s, WordChars, i)
                   IN IF j > i
                      THEN MatchFrom(rest, s, j, [caps EXCEPT ![e.n] = SubSeq(s, i, j - 1)])
                      ELSE NoMatch
              [] e.t = "opt" ->
                   LET with == MatchFrom(e.p \o rest, s, i, caps)
                   IN IF with # NoMatch THEN with ELSE MatchFrom(rest, s, i, caps)

\* s.match(pat) for a pattern without the g flag: the leftmost match
match(s, pat) ==
    LET Matches(i) == MatchFrom(pat, s, i, NoCaptures) # NoMatch
    IN IF \E i \in 1..(Len(s) + 1) : Matches(i)
       THEN MatchFrom(pat, s,
                      CHOOSE i \in 1..(Len(s) + 1) :
                          Matches(i) /\ \A k \in 1..(i - 1) : ~Matches(k),
                      NoCaptures)
       ELSE NoMatch

-----------------------------------------------------------------------------
(* DatabaseSchema as the analyzer reads and writes it.  enums, functions   *)
(* and extensions are never read or written by the analyzer and are left   *)
(* out; so are the fields of an entity that neither the replay nor the     *)
(* diff looks at.  An optional field is Undefined when the property is     *)
(* absent (the replay never sets it), Null when the introspector read a    *)
(* NULL, and Some(v) otherwise.                                            *)

Undefined == <<"undefined">>
Null == <<"null">>
Some(v) == <<"value", v>>

EmptySchema ==
    [tables |-> <<>>, views |-> <<>>, indexes |-> <<>>, triggers |-> <<>>,
     rlsPolicies |-> <<>>]

\* the schema object a call of buildExpectedSchemaFromMigrations starts from,
\* given the object the previous call left behind
CarriedSchema(left) == left
FreshSchema(left) == EmptySchema

OrPublic(captured) == IF captured = "" THEN "public" ELSE captured

\* index of the first element satisfying the test of Array.prototype.find, 0 if none
FindTable(tables, schemaName, tableName) ==
    LET hits == {i \in 1..Len(tables) :
                    tables[i].schema = schemaName /\ tables[i].name = tableName}
    IN IF hits = {} THEN 0 ELSE CHOOSE i \in hits : \A j \in hits : i <= j

CreateTablePattern ==
    <<Lit("CREATE TABLE"), Ws, Opt(<<Lit("IF NOT EXISTS"), Ws>>),
      Opt(<<Cap(1), Lit(".")>>), Cap(2)>>

\* mutant of applyCreateTable: the table starts with a column id when the
\* statement has a body
applyCreateTableWithBody(s, sql) ==
    LET m == match(sql, CreateTablePattern)
    IN IF m = NoMatch THEN s
       ELSE [s EXCEPT !.tables =
                Append(@, [schema |-> OrPublic(m[1][1]), name |-> m[1][2],
                           columns |-> IF includes(sql, "(")
                                       THEN <<[name |-> "id", dataType |-> "int",
                                               isNullable |-> TRUE,
                                               defaultValue |-> Undefined,
                                               characterMaximumLength |-> Undefined,
                                               numericPrecision |-> Undefined,
                                               numericScale |-> Undefined,
                                               ordinalPosition |-> 1]>>
                                       ELSE <<>>,
                           constraints |-> <<>>])]

applyCreateTable(s, sql) ==
    LET m == match(sql, CreateTablePattern)
    IN IF m = NoMatch THEN s
       ELSE [s EXCEPT !.tables =
                Append(@, [schema |-> OrPublic(m[1][1]), name |-> m[1][2],
                           columns |-> <<>>, constraints |-> <<>>])]

DropTablePattern ==
    <<Lit("DROP TABLE"), Ws, Opt(<<Lit("IF EXISTS"), Ws>>),
      Opt(<<Cap(1), Lit(".")>>), Cap(2)>>

\* mutant of applyDropTable: every table of the schema is removed
applyDropSchemaTables(s, sql) ==
    LET m == match(sql, DropTablePattern)
    IN IF m = NoMatch THEN s
       ELSE LET schemaName == OrPublic(m[1][1])
                Keep(t) == t.schema # schemaName
            IN [s EXCEPT !.tables = SelectSeq(@, Keep)]

applyDropTable(s, sql) ==
    LET m == match(sql, DropTablePattern)
    IN IF m = NoMatch THEN s
       ELSE LET schemaName == OrPublic(m[1][1])
                tableName == m[1][2]
                Keep(t) == ~(t.schema = schemaName /\ t.name = tableName)
            IN [s EXCEPT !.tables = SelectSeq(@, Keep)]

AddColumnPattern ==
    <<Lit("ALTER TABLE"), Ws, Opt(<<Cap(1), Lit(".")>>), Cap(2), Ws,
      Lit("ADD COLUMN"), Ws, Cap(3)>>

ReplayedColumn(columnName, position) ==
    [name |-> columnName, dataType |-> "text", isNullable |-> TRUE,
     defaultValue |-> Undefined, characterMaximumLength |-> Undefined,
     numericPrecision |-> Undefined, numericScale |-> Undefined,
     ordinalPosition |-> position]

applyAddColumnCreating(s, sql) ==
    LET m == match(sql, AddColumnPattern)
    IN IF m = NoMatch THEN s
       ELSE LET schemaName == OrPublic(m[1][1])
                tableName == m[1][2]
                i == FindTable(s.tables, schemaName, tableName)
            IN IF i = 0
               THEN [s EXCEPT !.tables =
                        Append(@, [schema |-> schemaName, name |-> tableName,
                                   columns |-> <<ReplayedColumn(m[1][3], 1)>>,
                                   constraints |-> <<>>])]
               ELSE [s EXCEPT !.tables[i].columns =
                        Append(@, ReplayedColumn(m[1][3], Len(@) + 1))]

applyAddColumn(s, sql) ==
    LET m == match(sql, AddColumnPattern)
    IN IF m = NoMatch THEN s
       ELSE LET i == FindTable(s.tables, OrPublic(m[1][1]), m[1][2])
            IN IF i = 0 THEN s
               ELSE [s EXCEPT !.tables[i].columns =
                        Append(@, ReplayedColumn(m[1][3], Len(@) + 1))]

DropColumnPattern ==
    <<Lit("ALTER TABLE"), Ws, Opt(<<Cap(1), Lit(".")>>), Cap(2), Ws,
      Lit("DROP COLUMN"), Ws, Cap(3)>>

applyDropColumn(s, sql) ==
    LET m == match(sql, DropColumnPattern)
    IN IF m = NoMatch THEN s
       ELSE LET i == FindTable(s.tables, OrPublic(m[1][1]), m[1][2])
                Keep(c) == c.name # m[1][3]
            IN IF i = 0 THEN s
               ELSE [s EXCEPT !.tables[i].columns = SelectSeq(@, Keep)]

CreateIndexPattern ==
    <<Lit("CREATE"), Ws, Opt(<<Lit("UNIQUE"), Ws>>), Lit("INDEX"), Ws,
      Opt(<<Lit("CONCURRENTLY"), Ws>>), Cap(1), Ws, Lit("ON"), Ws,
      Opt(<<Cap(2), Lit(".")>>), Cap(3)>>

applyCreateIndex(s, sql) ==
    LET m == match(sql, CreateIndexPattern)
    IN IF m = NoMatch THEN s
       ELSE [s EXCEPT !.indexes =
                Append(@, [name |-> m[1][1], tableName |-> m[1][3],
                           schemaName |-> OrPublic(m[1][2]),
                           isUnique |-> includes(toUpperCase(sql), "UNIQUE"),
                           isConcurrent |-> includes(toUpperCase(sql), "CONCURRENTLY")])]

DropIndexPattern ==
    <<Lit("DROP INDEX"), Ws, Opt(<<Lit("CONCURRENTLY"), Ws>>),
      Opt(<<Lit("IF EXISTS"), Ws>>), Cap(1)>>

applyDropIndex(s, sql) ==
    LET m == match(sql, DropIndexPattern)
    IN IF m = NoMatch THEN s
       ELSE LET Keep(i) == i.name # m[1][1]
            IN [s EXCEPT !.indexes = SelectSeq(@, Keep)]

CreateViewPattern ==
    <<Lit("CREATE"), Ws, Opt(<<Lit("OR"), Ws, Lit("REPLACE"), Ws>>), Lit("VIEW"), Ws,
      Opt(<<Cap(1), Lit(".")>>), Cap(2), Ws, Lit("AS")>>

applyCreateView(s, sql) ==
    LET m == match(sql, CreateViewPattern)
    IN IF m = NoMatch THEN s
       ELSE LET schemaName == OrPublic(m[1][1])
                viewName == m[1][2]
                Keep(v) == ~(v.schema = schemaName /\ v.name = viewName)
            IN [s EXCEPT !.views =
                   Append(SelectSeq(@, Keep),
                          [schema |-> schemaName, name |-> viewName, definition |-> sql])]

DropViewPattern ==
    <<Lit("DROP VIEW"), Ws, Opt(<<Lit("IF EXISTS"), Ws>>),
      Opt(<<Cap(1), Lit(".")>>), Cap(2)>>

applyDropView(s, sql) ==
    LET m == match(sql, DropViewPattern)
    IN IF m = NoMatch THEN s
       ELSE LET schemaName == OrPublic(m[1][1])
                viewName == m[1][2]
                Keep(v) == ~(v.schema = schemaName /\ v.name = viewName)
            IN [s EXCEPT !.views = SelectSeq(@, Keep)]

CreateTriggerPattern == <<Lit("CREATE TRIGGER"), Ws, Cap(1)>>

applyCreateTrigger(s, sql) ==
    LET m == match(sql, CreateTriggerPattern)
    IN IF m = NoMatch THEN s
       ELSE [s EXCEPT !.triggers =
                Append(@, [schema |-> "public", name |-> m[1][1], tableName |-> "",
                           definition |-> sql])]

DropTriggerPattern == <<Lit("DROP TRIGGER"), Ws, Cap(1)>>

applyDropTrigger(s, sql) ==
    LET m == match(sql, DropTriggerPattern)
    IN IF m = NoMatch THEN s
       ELSE LET Keep(t) == t.name # m[1][1]
            IN [s EXCEPT !.triggers = SelectSeq(@, Keep)]

CreatePolicyPattern ==
    <<Lit("CREATE POLICY"), Ws, Cap(1), Ws, Lit("ON"), Ws,
      Opt(<<Cap(2), Lit(".")>>), Cap(3)>>

applyCreatePolicy(s, sql) ==
    LET m == match(sql, CreatePolicyPattern)
    IN IF m = NoMatch THEN s
       ELSE [s EXCEPT !.rlsPolicies =
                Append(@, [schema |-> OrPublic(m[1][2]), tableName |-> m[1][3],
                           policyName |-> m[1][1]])]

DropPolicyPattern ==
    <<Lit("DROP POLICY"), Ws, Cap(1), Ws, Lit("ON"), Ws,
      Opt(<<Cap(2), Lit(".")>>), Cap(3)>>

applyDropPolicy(s, sql) ==
    LET m == match(sql, DropPolicyPattern)
    IN IF m = NoMatch THEN s
       ELSE LET Keep(p) == ~(p.schema = OrPublic(m[1][2]) /\ p.tableName = m[1][3]
                             /\ p.policyName = m[1][1])
            IN [s EXCEPT !.rlsPolicies = SelectSeq(@, Keep)]

\* mutant of OperationType: CREATE TABLE and DROP TABLE found anywhere in
\* the statement
OperationTypeAnywhere(statement) ==
    LET upperStatement == toUpperCase(statement)
    IN IF includes(upperStatement, "CREATE TABLE") THEN "CREATE_TABLE"
       ELSE IF includes(upperStatement, "DROP TABLE") THEN "DROP_TABLE"
       ELSE IF startsWith(upperStatement, "ALTER TABLE")
               /\ includes(upperStatement, "ADD COLUMN") THEN "ADD_COLUMN"
       ELSE IF startsWith(upperStatement, "ALTER TABLE")
               /\ includes(upperStatement, "DROP COLUMN") THEN "DROP_COLUMN"
       ELSE IF startsWith(upperStatement, "CREATE INDEX")
               \/ startsWith(upperStatement, "CREATE UNIQUE INDEX") THEN "CREATE_INDEX"
       ELSE IF startsWith(upperStatement, "DROP INDEX") THEN "DROP_INDEX"
       ELSE ""

\* the type parseMigrationOperations gives one trimmed statement; "" when it
\* pushes no operation for it
OperationType(statement) ==
    LET upperStatement == toUpperCase(statement)
    IN IF startsWith(upperStatement, "CREATE TABLE") THEN "CREATE_TABLE"
       ELSE IF startsWith(upperStatement, "DROP TABLE") THEN "DROP_TABLE"
       ELSE IF startsWith(upperStatement, "ALTER TABLE")
               /\ includes(upperStatement, "ADD COLUMN") THEN "ADD_COLUMN"
       ELSE IF startsWith(upperStatement, "ALTER TABLE")
               /\ includes(upperStatement, "DROP COLUMN") THEN "DROP_COLUMN"
       ELSE IF startsWith(upperStatement, "CREATE INDEX")
               \/ startsWith(upperStatement, "CREATE UNIQUE INDEX") THEN "CREATE_INDEX"
       ELSE IF startsWith(upperStatement, "DROP INDEX") THEN "DROP_INDEX"
       ELSE ""

parseMigrationOperations(sql) ==
    LET NonEmpty(st) == Len(st) > 0
        statements == SelectSeq(MapSeq(trim, split(sql, ";")), NonEmpty)
        Typed(op) == op.type # ""
    IN SelectSeq([i \in 1..Len(statements) |->
                     [type |-> OperationType(statements[i]), sql |-> statements[i]]],
                 Typed)

\* one case of the switch of applyMigrationToSchema
applyOperation(s, operation) ==
    CASE operation.type = "CREATE_TABLE" -> applyCreateTable(s, operation.sql)
      [] operation.type = "DROP_TABLE" -> applyDropTable(s, operation.sql)
      [] operation.type = "ADD_COLUMN" -> applyAddColumn(s, operation.sql)
      [] operation.type = "DROP_COLUMN" -> applyDropColumn(s, operation.sql)
      [] operation.type = "CREATE_INDEX" -> applyCreateIndex(s, operation.sql)
      [] operation.type = "DROP_INDEX" -> applyDropIndex(s, operation.sql)
      [] operation.type = "CREATE_VIEW" -> applyCreateView(s, operation.sql)
      [] operation.type = "DROP_VIEW" -> applyDropView(s, operation.sql)
      [] operation.type = "CREATE_TRIGGER" -> applyCreateTrigger(s, operation.sql)
      [] operation.type = "DROP_TRIGGER" -> applyDropTrigger(s, operation.sql)
      [] operation.type = "CREATE_POLICY" -> applyCreatePolicy(s, operation.sql)
      [] operation.type = "DROP_POLICY" -> applyDropPolicy(s, operation.sql)
      [] OTHER -> s

RECURSIVE applyOperations(_, _)
applyOperations(s, operations) ==
    IF operations = <<>> THEN s
    ELSE applyOperations(applyOperation(s, Head(operations)), Tail(operations))

applyMigrationToSchema(s, migration) ==
    applyOperations(s, parseMigrationOperations(migration.upSql))

RECURSIVE ReplayFrom(_, _)
\* the for-loop of buildExpectedSchemaFromMigrations, run to its end
ReplayFrom(s, migs) ==
    IF migs = <<>> THEN s
    ELSE ReplayFrom(applyMigrationToSchema(s, Head(migs)), Tail(migs))

buildExpectedSchemaFromMigrations(migs) == ReplayFrom(FreshSchema(EmptySchema), migs)

-----------------------------------------------------------------------------
(* The diff: compareSchemas and its helpers *)

\* new Map(list.map(e => [key(e), e])): the keys in order of first insertion
RECURSIVE DistinctKeys(_, _)
DistinctKeys(keys, seen) ==
    IF keys = <<>> THEN <<>>
    ELSE IF Head(keys) \in seen THEN DistinctKeys(Tail(keys), seen)
    ELSE <<Head(keys)>> \o DistinctKeys(Tail(keys), seen \cup {Head(keys)})

MapKeys(keys) == DistinctKeys(keys, {})

\* Map.get: the entry inserted last under the key
MapGet(list, keys, k) ==
    list[CHOOSE i \in 1..Len(list) :
            keys[i] = k /\ \A j \in 1..Len(list) : keys[j] = k => j <= i]

InKeys(keys, k) == \E i \in 1..Len(keys) : keys[i] = k

\* mutant of KeysNotIn: the has() test inverted
KeysAlsoIn(mine, theirs) ==
    LET Present(k) == InKeys(theirs, k)
    IN SelectSeq(MapKeys(mine), Present)

\* the keys of mine that theirs does not have, in mine's Map order
KeysNotIn(mine, theirs) ==
    LET Absent(k) == ~InKeys(theirs, k)
    IN SelectSeq(MapKeys(mine), Absent)

TableKey(t) == t.schema \o "." \o t.name
IndexKey(i) == i.schemaName \o "." \o i.tableName \o "." \o i.name
ViewKey(v) == v.schema \o "." \o v.name
TriggerKey(t) == t.schema \o "." \o t.tableName \o "." \o t.name
PolicyKey(p) == p.schema \o "." \o p.tableName \o "." \o p.policyName
NameOf(e) == e.name

BoolToString(b) == IF b THEN "true" ELSE "false"
\* x || "null" for an optional string
StringOrNull(o) == IF o[1] = "value" /\ o[2] # "" THEN o[2] ELSE "null"
\* x?.toString() || "null" for an optional number
NumberOrNull(o) == IF o[1] = "value" THEN ToString(o[2]) ELSE "null"

compareColumn(expected, actual) ==
    [columnName |-> expected.name,
     changes |->
        (IF expected.dataType # actual.dataType
         THEN <<[property |-> "dataType", expected |-> expected.dataType,
                 actual |-> actual.dataType]>> ELSE <<>>)
        \o (IF expected.isNullable # actual.isNullable
            THEN <<[property |-> "isNullable",
                    expected |-> BoolToString(expected.isNullable),
                    actual |-> BoolToString(actual.isNullable)]>> ELSE <<>>)
        \o (IF expected.defaultValue # actual.defaultValue
            THEN <<[property |-> "defaultValue",
                    expected |-> StringOrNull(expected.defaultValue),
                    actual |-> StringOrNull(actual.defaultValue)]>> ELSE <<>>)
        \o (IF expected.characterMaximumLength # actual.characterMaximumLength
            THEN <<[property |-> "characterMaximumLength",
                    expected |-> NumberOrNull(expected.characterMaximumLength),
                    actual |-> NumberOrNull(actual.characterMaximumLength)]>> ELSE <<>>)
        \o (IF expected.numericPrecision # actual.numericPrecision
            THEN <<[property |-> "numericPrecision",
                    expected |-> NumberOrNull(expected.numericPrecision),
                    actual |-> NumberOrNull(actual.numericPrecision)]>> ELSE <<>>)
        \o (IF expected.numericScale # actual.numericScale
            THEN <<[property |-> "numericScale",
                    expected |-> NumberOrNull(expected.numericScale),
                    actual |-> NumberOrNull(actual.numericScale)]>> ELSE <<>>)]

compareTable(expected, actual) ==
    LET expectedNames == MapSeq(NameOf, expected.columns)
        actualNames == MapSeq(NameOf, actual.columns)
        Shared(n) == InKeys(actualNames, n)
        shared == SelectSeq(MapKeys(expectedNames), Shared)
        columnDrifts == [i \in 1..Len(shared) |->
                            compareColumn(MapGet(expected.columns, expectedNames, shared[i]),
                                          MapGet(actual.columns, actualNames, shared[i]))]
        Changed(d) == Len(d.changes) > 0
    IN [tableName |-> TableKey(expected),
        missingColumns |-> KeysNotIn(expectedNames, actualNames),
        extraColumns |-> KeysNotIn(actualNames, expectedNames),
        modifiedColumns |-> SelectSeq(columnDrifts, Changed),
        missingConstraints |-> KeysNotIn(MapSeq(NameOf, expected.constraints),
                                         MapSeq(NameOf, actual.constraints)),
        extraConstraints |-> KeysNotIn(MapSeq(NameOf, actual.constraints),
                                       MapSeq(NameOf, expected.constraints))]

compareView(expected, actual) ==
    LET definitionChanged == trim(expected.definition) # trim(actual.definition)
    IN [viewName |-> ViewKey(expected),
        definitionChanged |-> definitionChanged,
        oldDefinition |-> IF definitionChanged THEN Some(actual.definition) ELSE Undefined,
        newDefinition |-> IF definitionChanged THEN Some(expected.definition) ELSE Undefined]

hasTableChanges(tableDrift) ==
    \/ Len(tableDrift.missingColumns) > 0
    \/ Len(tableDrift.extraColumns) > 0
    \/ Len(tableDrift.modifiedColumns) > 0
    \/ Len(tableDrift.missingConstraints) > 0
    \/ Len(tableDrift.extraConstraints) > 0

NoDriftSummary == "No schema drift detected. Database schema matches migrations."

generateSummary(hasChanges, missingTables, extraTables, modifiedTables) ==
    IF ~hasChanges THEN NoDriftSummary
    ELSE LET parts ==
                (IF Len(missingTables) > 0
                 THEN <<ToString(Len(missingTables)) \o " table(s) missing from database">>
                 ELSE <<>>)
                \o (IF Len(extraTables) > 0
                    THEN <<ToString(Len(extraTables)) \o " extra table(s) in database">>
                    ELSE <<>>)
                \o (IF Len(modifiedTables) > 0
                    THEN <<ToString(Len(modifiedTables)) \o " table(s) have structural changes">>
                    ELSE <<>>)
         IN "Schema drift detected: " \o join(parts, ", ") \o "."

\* mutant of AnyChange: the two view-definition and policy lists forgotten
AnyChangeTablesOnly(d) ==
    \/ Len(d.missingTables) > 0
    \/ Len(d.extraTables) > 0
    \/ Len(d.modifiedTables) > 0
    \/ Len(d.missingIndexes) > 0
    \/ Len(d.extraIndexes) > 0
    \/ Len(d.missingViews) > 0
    \/ Len(d.extraViews) > 0
    \/ Len(d.missingTriggers) > 0
    \/ Len(d.extraTriggers) > 0
    \/ Len(d.missingRLSPolicies) > 0

\* the hasChanges expression of compareSchemas over the lists it has built
AnyChange(d) ==
    \/ Len(d.missingTables) > 0
    \/ Len(d.extraTables) > 0
    \/ Len(d.modifiedTables) > 0
    \/ Len(d.missingIndexes) > 0
    \/ Len(d.extraIndexes) > 0
    \/ Len(d.missingViews) > 0
    \/ Len(d.extraViews) > 0
    \/ Len(d.modifiedViews) > 0
    \/ Len(d.missingTriggers) > 0
    \/ Len(d.extraTriggers) > 0
    \/ Len(d.missingRLSPolicies) > 0
    \/ Len(d.extraRLSPolicies) > 0

\* mutant of ViewDriftsToReport: every compared view reported as modified
AllViewDrifts(viewDrifts) == viewDrifts

\* the views pushed to modifiedViews among the compared ones
ViewDriftsToReport(viewDrifts) ==
    LET Changed(d) == d.definitionChanged
    IN SelectSeq(viewDrifts, Changed)

compareSchemas(expected, actual) ==
    LET expectedTableKeys == MapSeq(TableKey, expected.tables)
        actualTableKeys == MapSeq(TableKey, actual.tables)
        SharedTable(k) == InKeys(actualTableKeys, k)
        sharedTables == SelectSeq(MapKeys(expectedTableKeys), SharedTable)
        tableDrifts == [i \in 1..Len(sharedTables) |->
                           compareTable(MapGet(expected.tables, expectedTableKeys, sharedTables[i]),
                                        MapGet(actual.tables, actualTableKeys, sharedTables[i]))]
        expectedIndexKeys == MapSeq(IndexKey, expected.indexes)
        actualIndexKeys == MapSeq(IndexKey, actual.indexes)
        expectedViewKeys == MapSeq(ViewKey, expected.views)
        actualViewKeys == MapSeq(ViewKey, actual.views)
        SharedView(k) == InKeys(actualViewKeys, k)
        sharedViews == SelectSeq(MapKeys(expectedViewKeys), SharedView)
        viewDrifts == [i \in 1..Len(sharedViews) |->
                          compareView(MapGet(expected.views, expectedViewKeys, sharedViews[i]),
                                      MapGet(actual.views, actualViewKeys, sharedViews[i]))]
        expectedTriggerKeys == MapSeq(TriggerKey, expected.triggers)
        actualTriggerKeys == MapSeq(TriggerKey, actual.triggers)
        expectedRLSKeys == MapSeq(PolicyKey, expected.rlsPolicies)
        actualRLSKeys == MapSeq(PolicyKey, actual.rlsPolicies)
        lists ==
            [missingTables |-> KeysNotIn(expectedTableKeys, actualTableKeys),
             extraTables |-> KeysNotIn(actualTableKeys, expectedTableKeys),
             modifiedTables |-> SelectSeq(tableDrifts, hasTableChanges),
             missingIndexes |-> KeysNotIn(expectedIndexKeys, actualIndexKeys),
             extraIndexes |-> KeysNotIn(actualIndexKeys, expectedIndexKeys),
             missingViews |-> KeysNotIn(expectedViewKeys, actualViewKeys),
             extraViews |-> KeysNotIn(actualViewKeys, expectedViewKeys),
             modifiedViews |-> ViewDriftsToReport(viewDrifts),
             missingTriggers |-> KeysNotIn(expectedTriggerKeys, actualTriggerKeys),
             extraTriggers |-> KeysNotIn(actualTriggerKeys, expectedTriggerKeys),
             missingRLSPolicies |-> KeysNotIn(expectedRLSKeys, actualRLSKeys),
             extraRLSPolicies |-> KeysNotIn(actualRLSKeys, expectedRLSKeys)]
        hasChanges == AnyChange(lists)
    IN [hasChanges |-> hasChanges,
        missingTables |-> lists.missingTables,
        extraTables |-> lists.extraTables,
        modifiedTables |-> lists.modifiedTables,
        missingIndexes |-> lists.missingIndexes,
        extraIndexes |-> lists.extraIndexes,
        missingViews |-> lists.missingViews,
        extraViews |-> lists.extraViews,
        modifiedViews |-> lists.modifiedViews,
        missingTriggers |-> lists.missingTriggers,
        extraTriggers |-> lists.extraTriggers,
        missingRLSPolicies |-> lists.missingRLSPolicies,
        extraRLSPolicies |-> lists.extraRLSPolicies,
        summary |-> generateSummary(hasChanges, lists.missingTables, lists.extraTables,
                                    lists.modifiedTables)]

compareSchemasWithMigrations(current, migs) ==
    compareSchemas(buildExpectedSchemaFromMigrations(migs), current)

-----------------------------------------------------------------------------
(* The migration file loader: MigrationParser *)

\* Array.prototype.sort with comparator Cmp, which is stable: element i goes
\* after every element that compares lower and every equal one listed before it
StableSort(s, Cmp(_, _)) ==
    LET n == Len(s)
        Rank(i) == 1 + Cardinality({j \in 1..n :
                                      \/ Cmp(s[j], s[i]) < 0
                                      \/ Cmp(s[j], s[i]) = 0 /\ j < i})
    IN [k \in 1..n |-> s[CHOOSE i \in 1..n : Rank(i) = k]]

DigitRank(c) == CHOOSE r \in 1..10 : CharAt(DigitAlphabet, r) = c

\* a.localeCompare(b) for version strings, which hold digits only: decided
\* at the first position where the two differ or one has ended
localeCompare(a, b) ==
    IF a = b THEN 0
    ELSE LET i == CHOOSE j \in 1..(Len(a) + 1) :
                      /\ j > Len(a) \/ j > Len(b) \/ CharAt(a, j) # CharAt(b, j)
                      /\ \A k \in 1..(j - 1) : k <= Len(b) /\ CharAt(a, k) = CharAt(b, k)
         IN IF i > Len(a) THEN -1
            ELSE IF i > Len(b) THEN 1
            ELSE IF DigitRank(CharAt(a, i)) < DigitRank(CharAt(b, i)) THEN -1 ELSE 1

\* filename.match(/^(\d+)/): the leading digits, "" standing for null
extractVersion(filename) == SubSeq(filename, 1, RunEnd(filename, DigitChars, 1) - 1)

ReplaceChar(s, from, to) == MapChars(s, [c \in {from} |-> to])

\* filename.match(/^\d+_(.+)\.sql$/), underscores of the name turned into
\* spaces; "" standing for null
extractName(filename) ==
    LET d == RunEnd(filename, DigitChars, 1)
        last == Len(filename) - 4
    IN IF d > 1 /\ CharAt(filename, d) = "_" /\ endsWith(filename, ".sql")
          /\ last >= d + 1 /\ ~includes(SubSeq(filename, d + 1, last), "\n")
       THEN ReplaceChar(SubSeq(filename, d + 1, last), "_", " ")
       ELSE ""

MarkerUp == "-- migrate:up"
MarkerDown == "-- migrate:down"

RECURSIVE SectionsFrom(_, _, _, _, _)
\* the loop of parseMigrationSections over lines[i..], in section currentSection
SectionsFrom(lines, i, currentSection, upSql, downSql) ==
    IF i > Len(lines) THEN [upSql |-> trim(upSql), downSql |-> trim(downSql)]
    ELSE LET line == lines[i]
             trimmed == trim(line)
         IN IF startsWith(trimmed, MarkerUp)
            THEN SectionsFrom(lines, i + 1, "up", upSql, downSql)
            ELSE IF startsWith(trimmed, MarkerDown)
            THEN SectionsFrom(lines, i + 1, "down", upSql, downSql)
            ELSE IF currentSection = "up"
            THEN SectionsFrom(lines, i + 1, currentSection, upSql \o line \o "\n", downSql)
            ELSE IF currentSection = "down"
            THEN SectionsFrom(lines, i + 1, currentSection, upSql, downSql \o line \o "\n")
            ELSE SectionsFrom(lines, i + 1, currentSection, upSql, downSql)

\* mutant of parseMigrationSections: the lines before the first marker are
\* taken for the up section
parseSectionsFromUp(content) == SectionsFrom(split(content, "\n"), 1, "up", "", "")

parseMigrationSections(content) == SectionsFrom(split(content, "\n"), 1, "none", "", "")

\* mutant of parseMigrationContent: an empty down section is not an error
parseMigrationContentWithoutDown(filename, content) ==
    LET version == extractVersion(filename)
        sections == parseMigrationSections(content)
        errors ==
            (IF version = ""
             THEN <<"Invalid filename format: unable to extract version">> ELSE <<>>)
            \o (IF trim(sections.upSql) = ""
                THEN <<"Missing or empty migrate:up section">> ELSE <<>>)
    IN [version |-> version,
        name |-> extractName(filename),
        upSql |-> sections.upSql,
        downSql |-> sections.downSql,
        hasValidStructure |-> Len(errors) = 0,
        errors |-> errors]

parseMigrationContent(filename, content) ==
    LET version == extractVersion(filename)
        sections == parseMigrationSections(content)
        errors ==
            (IF version = ""
             THEN <<"Invalid filename format: unable to extract version">> ELSE <<>>)
            \o (IF trim(sections.upSql) = ""
                THEN <<"Missing or empty migrate:up section">> ELSE <<>>)
            \o (IF trim(sections.downSql) = ""
                THEN <<"Missing or empty migrate:down section">> ELSE <<>>)
    IN [version |-> version,
        name |-> extractName(filename),
        upSql |-> sections.upSql,
        downSql |-> sections.downSql,
        hasValidStructure |-> Len(errors) = 0,
        errors |-> errors]

\* the template literal of formatMigrationContent
formatMigrationContent(upSql, downSql) ==
    MarkerUp \o "\n" \o upSql \o "\n\n" \o MarkerDown \o "\n" \o downSql \o "\n"

\* a well-formed migration file with the two sections
UpDown(up, down) == "-- migrate:up\n" \o up \o "\n\n-- migrate:down\n" \o down \o "\n"

\* the files a directory is made of
LoaderFiles ==
    {[filename |-> "20240101000000_a.sql",
      content |-> UpDown("CREATE TABLE foo;", "DROP TABLE foo;")],
     [filename |-> "20240103000000_b.sql",
      content |-> UpDown("ALTER TABLE foo DROP COLUMN bar;", "ALTER TABLE foo ADD COLUMN bar text;")],
     [filename |-> "20240102000000_c.sql",
      content |-> UpDown("ALTER TABLE foo ADD COLUMN bar text;", "ALTER TABLE foo DROP COLUMN bar;")],
     [filename |-> "20240102000000_c.sql",
      content |-> MarkerUp \o "\nALTER TABLE foo ADD COLUMN baz text;\n"],
     [filename |-> "20240101000000_d.sql",
      content |-> UpDown("CREATE INDEX i ON foo (bar);", "DROP INDEX i;")],
     [filename |-> "notes.sql",
      content |-> UpDown("CREATE TABLE notes;", "DROP TABLE notes;")]}

\* directory entries with and without the defects parseMigrationContent
\* records, and entries whose names are not migration file names
IntakeFiles ==
    {[filename |-> "20240101000000_a.sql",
      content |-> UpDown("CREATE TABLE foo;", "DROP TABLE foo;")],
     [filename |-> "20240102000000_nodown.sql",
      content |-> "-- migrate:up\nALTER TABLE foo ADD COLUMN baz text;\n"],
     [filename |-> "20240104000000_noup.sql",
      content |-> "-- migrate:up\n\n-- migrate:down\nDROP TABLE qux;\n"],
     [filename |-> "notes.sql",
      content |-> UpDown("CREATE TABLE notes;", "DROP TABLE notes;")],
     [filename |-> "2024_x.sql",
      content |-> UpDown("CREATE TABLE x;", "DROP TABLE x;")],
     [filename |-> "README.md",
      content |-> "# migrations\n"]}

\* parseMigrationContent of each file a directory can hold
ParsedFile ==
    [f \in LoaderFiles \cup IntakeFiles |-> parseMigrationContent(f.filename, f.content)]

\* mutant of SortByVersion: the files returned in directory order
InDirectoryOrder(parsedFiles) == parsedFiles

\* parsedFiles.sort((a, b) => a.parsed.version.localeCompare(b.parsed.version))
SortByVersion(parsedFiles) ==
    LET ByVersion(a, b) == localeCompare(a.parsed.version, b.parsed.version)
    IN StableSort(parsedFiles, ByVersion)

\* mutant of IsMigrationFile: no filter on the directory entries
IsAnyEntry(filename) == TRUE

\* files.filter(file => file.endsWith('.sql'))
IsMigrationFile(filename) == endsWith(filename, ".sql")

\* mutant of parseMigrationFiles: a file with a validation error is left out
parseValidFilesOnly(listing) ==
    LET IsValidSql(f) == IsMigrationFile(f.filename) /\ ParsedFile[f].hasValidStructure
        migrationFiles == SelectSeq(listing, IsValidSql)
        parsedFiles == [i \in 1..Len(migrationFiles) |->
                           [filename |-> migrationFiles[i].filename,
                            content |-> migrationFiles[i].content,
                            parsed |-> ParsedFile[migrationFiles[i]]]]
    IN SortByVersion(parsedFiles)

\* listing: the directory as readdir lists it, a sequence of
\* [filename, content].  The directory exists and every file can be read.
parseMigrationFiles(listing) ==
    LET IsSql(f) == IsMigrationFile(f.filename)
        migrationFiles == SelectSeq(listing, IsSql)
        parsedFiles == [i \in 1..Len(migrationFiles) |->
                           [filename |-> migrationFiles[i].filename,
                            content |-> migrationFiles[i].content,
                            parsed |-> ParsedFile[migrationFiles[i]]]]
    IN SortByVersion(parsedFiles)

NoFault == [at |-> "none", code |-> "", filename |-> ""]

\* the error code raised inside the try block of parseMigrationFiles, "" when
\* none: readdir fails, or readFile fails on a file the filter kept
RaisedInTry(listing, f) ==
    IF f.at = "readdir" THEN f.code
    ELSE IF /\ f.at = "readFile"
            /\ IsMigrationFile(f.filename)
            /\ \E i \in 1..Len(listing) : listing[i].filename = f.filename
    THEN f.code
    ELSE ""

\* the catch block of parseMigrationFiles: an error with code ENOENT ends in
\* return [], any other is thrown again ("" when nothing is thrown)
Rethrown(code) == IF code = "ENOENT" THEN "" ELSE code

\* what parseMigrationFiles throws to its caller, "" when it returns
Thrown(listing, f) == Rethrown(RaisedInTry(listing, f))

\* the listing whose files parseMigrationFiles returns: none of them once
\* the catch block has swallowed an error
Loaded(listing, f) == IF RaisedInTry(listing, f) = "" THEN listing ELSE <<>>

MigrationOf(file) ==
    [version |-> file.parsed.version,
     name |-> file.parsed.name,
     filename |-> file.filename,
     upSql |-> file.parsed.upSql,
     downSql |-> file.parsed.downSql,
     appliedAt |-> Undefined]

FileVersion(file) == file.parsed.version
HasVersion(v) == v # ""

\* a canonical array index: Object.keys lists such keys first, in numeric order
IsArrayIndex(v) ==
    \/ v = "0"
    \/ /\ v # "" /\ CharAt(v, 1) # "0"
       /\ Len(v) <= 9 \/ (Len(v) = 10 /\ localeCompare(v, "4294967294") <= 0)

NumericCompare(a, b) ==
    IF Len(a) < Len(b) THEN -1 ELSE IF Len(a) > Len(b) THEN 1 ELSE localeCompare(a, b)

\* Object.keys(versionCounts): the versions counted, each once
ObjectKeys(countedVersions) ==
    LET keys == MapKeys(countedVersions)
        IsString(v) == ~IsArrayIndex(v)
    IN StableSort(SelectSeq(keys, IsArrayIndex), NumericCompare) \o SelectSeq(keys, IsString)

\* mutant of IsDuplicated: only a version seen three times or more counts
IsTriplicated(count) == count > 2

\* the filter of analyzeMigrations on versionCounts[version]
IsDuplicated(count) == count > 1

CountOf(countedVersions, v) ==
    Cardinality({i \in 1..Len(countedVersions) : countedVersions[i] = v})

\* analyzeMigrations, with the files it loaded kept beside the analysis
analyzeMigrations(listing) ==
    LET files == parseMigrationFiles(listing)
        Valid(f) == f.parsed.hasValidStructure
        Invalid(f) == ~f.parsed.hasValidStructure
        NoDown(f) == trim(f.parsed.downSql) = ""
        RECURSIVE ParseErrors(_)
        ParseErrors(i) ==
            IF i > Len(files) THEN <<>>
            ELSE (IF Valid(files[i]) THEN <<>>
                  ELSE [e \in 1..Len(files[i].parsed.errors) |->
                           [filename |-> files[i].filename, type |-> "PARSE_ERROR",
                            message |-> files[i].parsed.errors[e]]])
                 \o ParseErrors(i + 1)
        countedVersions == SelectSeq(MapSeq(FileVersion, files), HasVersion)
        Duplicated(v) == IsDuplicated(CountOf(countedVersions, v))
        duplicateVersions == SelectSeq(ObjectKeys(countedVersions), Duplicated)
        chain == SelectSeq(files, Valid)
    IN [files |-> files,
        analysis |->
           [totalFiles |-> Len(files),
            validMigrations |-> Len(SelectSeq(files, Valid)),
            invalidMigrations |-> Len(SelectSeq(files, Invalid)),
            missingDownMigrations |-> Len(SelectSeq(files, NoDown)),
            duplicateVersions |-> duplicateVersions,
            migrationChain |-> [i \in 1..Len(chain) |->
                                   [version |-> chain[i].parsed.version,
                                    name |-> chain[i].parsed.name,
                                    filename |-> chain[i].filename,
                                    upSql |-> chain[i].parsed.upSql,
                                    downSql |-> chain[i].parsed.downSql]],
            errors |-> ParseErrors(1)
                       \o [i \in 1..Len(duplicateVersions) |->
                              [filename |-> "", type |-> "DUPLICATE_VERSION",
                               message |-> "Version " \o duplicateVersions[i]
                                           \o " appears in multiple migration files"]]]]

\* mutant of FindApplied: no ledger row is ever found
FindNone(appliedMigrations, version) == 0

\* appliedMigrations.find(m => m.version === version): its index, 0 if none
FindApplied(appliedMigrations, version) ==
    LET hits == {i \in 1..Len(appliedMigrations) : appliedMigrations[i].version = version}
    IN IF hits = {} THEN 0 ELSE CHOOSE i \in hits : \A j \in hits : i <= j

\* mutant of LatestFirst: the greatest version string first
GreatestVersionFirst(a, b) == localeCompare(b.version, a.version)

\* appliedMigrations.sort((a, b) => b.appliedAt.getTime() - a.appliedAt.getTime())
LatestFirst(a, b) == b.appliedAt - a.appliedAt

getMigrationHistory(listing, appliedMigrations) ==
    LET files == parseMigrationFiles(listing)
        Valid(f) == f.parsed.hasValidStructure
        valid == SelectSeq(files, Valid)
        Pending(f) == FindApplied(appliedMigrations, f.parsed.version) = 0
        sortedApplied == StableSort(appliedMigrations, LatestFirst)
        Annotated(f) ==
            LET a == FindApplied(appliedMigrations, f.parsed.version)
            IN IF a = 0 THEN MigrationOf(f)
               ELSE [MigrationOf(f) EXCEPT !.appliedAt = Some(appliedMigrations[a].appliedAt)]
    IN [appliedMigrations |-> sortedApplied,
        pendingMigrations |-> MapSeq(MigrationOf, SelectSeq(valid, Pending)),
        totalMigrations |-> Len(files),
        lastAppliedVersion |-> IF Len(appliedMigrations) > 0
                               THEN Some(sortedApplied[1].version) ELSE Undefined,
        migrationChain |-> MapSeq(Annotated, valid)]

\* mutant of AppliedOnly: the whole chain, pending migrations included
WholeChain(chain, appliedMigrations) == chain

\* migrationChain.filter(m => appliedMigrations.some(am => am.version === m.version))
AppliedOnly(chain, appliedMigrations) ==
    LET Applied(m) == \E i \in 1..Len(appliedMigrations) :
                          appliedMigrations[i].version = m.version
    IN SelectSeq(chain, Applied)

\* compareSchemaMigrations given what the database returned (the live schema
\* and the ledger rows).  replayed is the list it hands to the analyzer,
\* kept beside the value returned.
compareSchemaMigrations(includeDetails, current, appliedMigrations, listing) ==
    LET migrationHistory == getMigrationHistory(listing, appliedMigrations)
        ByVersion(a, b) == localeCompare(a.version, b.version)
        appliedMigrationList ==
            StableSort(AppliedOnly(migrationHistory.migrationChain, appliedMigrations),
                       ByVersion)
        VersionOf(m) == m.version
        data == [drift |-> compareSchemasWithMigrations(current, appliedMigrationList),
                 appliedMigrations |-> Len(appliedMigrations),
                 pendingMigrations |-> Len(migrationHistory.pendingMigrations),
                 lastAppliedVersion |-> migrationHistory.lastAppliedVersion,
                 details |-> IF includeDetails
                             THEN Some([currentSchema |->
                                           [tables |-> Len(current.tables),
                                            indexes |-> Len(current.indexes)],
                                        migrationAnalysis |->
                                           [totalMigrations |-> Len(appliedMigrationList),
                                            migrationVersions |->
                                               MapSeq(VersionOf, appliedMigrationList)]])
                             ELSE Undefined]
    IN [success |-> TRUE,
        data |-> data,
        replayed |-> appliedMigrationList]

-----------------------------------------------------------------------------
(* Replay: one call of compareSchemasWithMigrations after another, each    *)
(* folding its migration list into a schema object one migration at a      *)
(* time.  The analyzer is synchronous, so calls never overlap.             *)

SqlCreateFoo == "CREATE TABLE foo"
SqlAddBar == "ALTER TABLE foo ADD COLUMN bar"

\* up sections the replayed migrations are drawn from
ReplayUpSqls ==
    {SqlCreateFoo,
     SqlAddBar,
     "DROP TABLE IF EXISTS foo;",
     "alter table public.foo drop column bar;",
     "CREATE INDEX i ON t (c);",
     "DROP INDEX i;",
     "INSERT INTO foo (bar) VALUES ('x');",
     "CREATE OR REPLACE VIEW v AS SELECT 1;",
     "create table if not exists app.t (id int);\nCREATE UNIQUE INDEX i ON app.t (id);\n",
     "CREATE VIEW v AS SELECT 2",
     "DROP VIEW v;",
     "CREATE TRIGGER trg BEFORE INSERT ON foo EXECUTE FUNCTION f();\nCREATE POLICY pol ON foo;",
     "DROP TRIGGER trg ON foo;\nDROP POLICY pol ON foo;",
     "CREATE INDEX i ON t (c);\nCREATE UNIQUE INDEX i ON app.t (id);",
     "UPDATE foo SET bar = 1;\nCREATE TABLE baz (id int);\nINSERT INTO log (msg) VALUES ('drop table baz')",
     "CREATE TABLE foo (id int);\nALTER TABLE foo ADD COLUMN bar text;"}

ReplayMigrations == {[upSql |-> u] : u \in ReplayUpSqls}

RECURSIVE SeqsUpTo(_, _)
\* the sequences over S of length at most n
SeqsUpTo(S, n) ==
    IF n = 0 THEN {<<>>}
    ELSE LET shorter == SeqsUpTo(S, n - 1)
         IN shorter \cup {Append(q, x) : q \in shorter, x \in S}

LiveColumn(columnName, type) ==
    [name |-> columnName, dataType |-> type, isNullable |-> TRUE,
     defaultValue |-> Null, characterMaximumLength |-> Null,
     numericPrecision |-> Null, numericScale |-> Null, ordinalPosition |-> 1]

\* live schemas the replay is compared against
ReplayLiveSchemas ==
    {EmptySchema,
     [EmptySchema EXCEPT
        !.tables = <<[schema |-> "public", name |-> "foo",
                      columns |-> <<LiveColumn("bar", "integer")>>,
                      constraints |-> <<>>]>>]}

NoDrift == <<>>

ReplayIdle ==
    /\ migrations = <<>>
    /\ currentSchema = EmptySchema
    /\ schema = EmptySchema
    /\ idx = 0
    /\ pc = "idle"
    /\ drift = NoDrift
    /\ prev = <<>>

\* compareSchemasWithMigrations is entered: buildExpectedSchemaFromMigrations
\* makes its schema object
Call ==
    /\ pc = "idle"
    /\ \E migs \in SeqsUpTo(ReplayMigrations, MaxMigrations), cur \in ReplayLiveSchemas :
          /\ migrations' = migs
          /\ currentSchema' = cur
    /\ prev' = <<>>
    /\ schema' = FreshSchema(schema)
    /\ idx' = 1
    /\ pc' = "replay"
    /\ drift' = NoDrift
    /\ UNCHANGED <<diffVars, loaderVars, formatVars, writeVars>>

\* compareSchemasWithMigrations is entered once more on the same analyzer with
\* the same migration list; prev keeps the schema the call before built
CallAgain ==
    /\ pc = "done"
    /\ \E cur \in ReplayLiveSchemas : currentSchema' = cur
    /\ prev' = <<schema>>
    /\ schema' = FreshSchema(schema)
    /\ idx' = 1
    /\ pc' = "replay"
    /\ drift' = NoDrift
    /\ UNCHANGED migrations
    /\ UNCHANGED <<diffVars, loaderVars, formatVars, writeVars>>

\* one iteration of the for-loop of buildExpectedSchemaFromMigrations
ApplyNext ==
    /\ pc = "replay"
    /\ idx <= Len(migrations)
    /\ schema' = applyMigrationToSchema(schema, migrations[idx])
    /\ idx' = idx + 1
    /\ UNCHANGED <<migrations, currentSchema, pc, drift, prev>>
    /\ UNCHANGED <<diffVars, loaderVars, formatVars, writeVars>>

\* the loop is over: the expected schema is diffed against the live one
Return ==
    /\ pc = "replay"
    /\ idx > Len(migrations)
    /\ drift' = compareSchemas(schema, currentSchema)
    /\ pc' = "done"
    /\ UNCHANGED <<migrations, currentSchema, schema, idx, prev>>
    /\ UNCHANGED <<diffVars, loaderVars, formatVars, writeVars>>

ReplayNext == Call \/ CallAgain \/ ApplyNext \/ Return

DiffIdle ==
    /\ diffExpected = EmptySchema
    /\ diffActual = EmptySchema
    /\ report = <<>>

LoaderIdle ==
    /\ dir = <<>>
    /\ ledger = <<>>
    /\ result = <<>>
    /\ fault = NoFault

FormatIdle ==
    /\ fmtUpSql = ""
    /\ fmtDownSql = ""
    /\ fmtContent = <<>>
    /\ fmtParsed = <<>>

\* the second of the day at which the model starts the clock, 12:00:58
StartClock == 58

\* the file the directory holds before the first call
InitialFiles ==
    {[filename |-> "20240101115900_init.sql",
      content |-> formatMigrationContent("CREATE TABLE init;", "DROP TABLE init;")]}

WriteIdle ==
    /\ clock = StartClock
    /\ disk = InitialFiles
    /\ calls = <<>>

ReplayInit == ReplayIdle /\ DiffIdle /\ LoaderIdle /\ FormatIdle /\ WriteIdle

Spec == ReplayInit /\ [][ReplayNext]_vars

UpSqls(migs) == [i \in 1..Len(migs) |-> migs[i].upSql]
ColumnNames(table) == MapSeq(NameOf, table.columns)

\* C1: replay is order-dependent.  Replaying [CREATE TABLE foo, ALTER TABLE
\* foo ADD COLUMN bar] from the empty model yields table public.foo with
\* exactly the column bar; replaying the two in the other order yields
\* public.foo with no columns, the ADD COLUMN having left the still empty
\* model unchanged.
C1_ReplayOrderDependent ==
    /\ (pc = "done" /\ UpSqls(migrations) = <<SqlCreateFoo, SqlAddBar>>)
          => /\ MapSeq(TableKey, schema.tables) = <<"public.foo">>
             /\ ColumnNames(schema.tables[1]) = <<"bar">>
    /\ (pc = "replay" /\ UpSqls(migrations) = <<SqlAddBar, SqlCreateFoo>> /\ idx = 2)
          => schema = EmptySchema
    /\ (pc = "done" /\ UpSqls(migrations) = <<SqlAddBar, SqlCreateFoo>>)
          => /\ MapSeq(TableKey, schema.tables) = <<"public.foo">>
             /\ ColumnNames(schema.tables[1]) = <<>>

C1_Witness ==
    /\ pc = "done"
    /\ UpSqls(migrations) = <<SqlAddBar, SqlCreateFoo>>
    /\ Len(schema.tables) = 1
    /\ schema.tables[1].columns = <<>>

Range(q) == {q[i] : i \in 1..Len(q)}

\* what the claim compares of two expected models: the keys of each family
\* and, per table key, the column names of the tables under it
KeyView(s) ==
    [tables |-> Range(MapSeq(TableKey, s.tables)),
     columns |-> {<<TableKey(s.tables[i]), ColumnNames(s.tables[i])>> : i \in 1..Len(s.tables)},
     indexes |-> Range(MapSeq(IndexKey, s.indexes)),
     views |-> Range(MapSeq(ViewKey, s.views)),
     triggers |-> Range(MapSeq(TriggerKey, s.triggers)),
     rlsPolicies |-> Range(MapSeq(PolicyKey, s.rlsPolicies))]

\* C2: replay is deterministic and starts fresh.  When a call replays the
\* same ordered migration list as the call before it, its expected model has
\* the same table keys, the same column names per table and the same index,
\* view, trigger and policy keys as the earlier one.
C2_ReplayDeterministic ==
    (pc = "done" /\ prev # <<>>) => KeyView(schema) = KeyView(prev[1])

C2_Witness ==
    /\ pc = "done"
    /\ prev # <<>>
    /\ Len(migrations) = 2
    /\ Len(schema.tables) = 1
    /\ Len(schema.tables[1].columns) = 1

HasNoDuplicates(keys) == Cardinality(Range(keys)) = Len(keys)

\* C6: after replaying any sequence of migrations from the empty model, no
\* two entries of a family of the expected model share a composite key.
C6_KeysUnique ==
    pc = "done" =>
        /\ HasNoDuplicates(MapSeq(TableKey, schema.tables))
        /\ HasNoDuplicates(MapSeq(IndexKey, schema.indexes))
        /\ HasNoDuplicates(MapSeq(ViewKey, schema.views))
        /\ HasNoDuplicates(MapSeq(TriggerKey, schema.triggers))
        /\ HasNoDuplicates(MapSeq(PolicyKey, schema.rlsPolicies))

-----------------------------------------------------------------------------
(* Diff: compareSchemas applied to pairs of schema models.  The expected   *)
(* side is any list of entities, as a replay may build it; the actual side *)
(* is a snapshot with one entity per key, or a copy of the expected side.  *)

OrdersTable(type) ==
    [family |-> "table",
     entity |-> [schema |-> "public", name |-> "orders",
                 columns |-> <<LiveColumn("id", type)>>, constraints |-> <<>>]]

\* the entities the two sides are made of, in the order a snapshot lists them
DiffEntities ==
    <<OrdersTable("integer"),
      OrdersTable("text"),
      [family |-> "table",
       entity |-> [schema |-> "app", name |-> "users", columns |-> <<>>,
                   constraints |-> <<>>]],
      [family |-> "index",
       entity |-> [name |-> "idx", tableName |-> "orders", schemaName |-> "public",
                   isUnique |-> FALSE, isConcurrent |-> FALSE]],
      [family |-> "view",
       entity |-> [schema |-> "public", name |-> "v", definition |-> "SELECT 1"]],
      [family |-> "view",
       entity |-> [schema |-> "public", name |-> "v", definition |-> "SELECT 2"]],
      [family |-> "trigger",
       entity |-> [schema |-> "public", name |-> "trg", tableName |-> "orders",
                   definition |-> ""]],
      [family |-> "policy",
       entity |-> [schema |-> "public", tableName |-> "orders", policyName |-> "pol"]]>>

EntityKey(e) ==
    CASE e.family = "table" -> TableKey(e.entity)
      [] e.family = "index" -> IndexKey(e.entity)
      [] e.family = "view" -> ViewKey(e.entity)
      [] e.family = "trigger" -> TriggerKey(e.entity)
      [] e.family = "policy" -> PolicyKey(e.entity)

EntityOf(e) == e.entity

\* the DatabaseSchema holding the listed entities, each family in list order
SchemaOf(entities) ==
    LET Family(f) ==
            LET Is(e) == e.family = f
            IN MapSeq(EntityOf, SelectSeq(entities, Is))
    IN [tables |-> Family("table"), views |-> Family("view"),
        indexes |-> Family("index"), triggers |-> Family("trigger"),
        rlsPolicies |-> Family("policy")]

ExpectedSchemas ==
    {SchemaOf([i \in 1..Len(picks) |-> DiffEntities[picks[i]]]) :
        picks \in SeqsUpTo(1..Len(DiffEntities), MaxEntities)}

\* snapshots: at most MaxEntities entities, no two under one key of a family
ActualSchemas ==
    LET Chosen(S) == SelectSeq(DiffEntities, LAMBDA e : \E i \in S : DiffEntities[i] = e)
    IN {SchemaOf(Chosen(S)) :
          S \in {S \in SUBSET (1..Len(DiffEntities)) :
                    /\ Cardinality(S) <= MaxEntities
                    /\ \A i, j \in S :
                          (i # j /\ DiffEntities[i].family = DiffEntities[j].family)
                             => EntityKey(DiffEntities[i]) # EntityKey(DiffEntities[j])}}

\* models of one table public.orders: as the replay of CREATE TABLE and two
\* ADD COLUMN builds it, and as snapshots of the database show it
TableCases ==
    LET Orders(columns, constraints) ==
            [EmptySchema EXCEPT
                !.tables = <<[schema |-> "public", name |-> "orders",
                              columns |-> columns, constraints |-> constraints]>>]
        pkey == [name |-> "orders_pkey", type |-> "PRIMARY KEY"]
        check == [name |-> "orders_check", type |-> "CHECK"]
        serial == [LiveColumn("id", "integer") EXCEPT
                      !.isNullable = FALSE, !.defaultValue = Some("nextval('orders_id_seq')"),
                      !.numericPrecision = Some(32), !.numericScale = Some(0)]
        varchar(n) == [LiveColumn("note", "character varying") EXCEPT
                          !.characterMaximumLength = Some(n), !.ordinalPosition = 2]
    IN {Orders(<<ReplayedColumn("id", 1), ReplayedColumn("note", 2)>>, <<>>),
        Orders(<<LiveColumn("id", "text"),
                 [LiveColumn("note", "text") EXCEPT !.ordinalPosition = 2]>>, <<>>),
        Orders(<<serial, varchar(10)>>, <<pkey>>),
        Orders(<<varchar(20), [LiveColumn("total", "numeric") EXCEPT
                                  !.numericPrecision = Some(10), !.numericScale = Some(2)]>>,
               <<pkey, check>>)}

DiffInit ==
    /\ ReplayIdle
    /\ WriteIdle
    /\ LoaderIdle
    /\ FormatIdle
    /\ diffExpected \in ExpectedSchemas \cup TableCases
    /\ diffActual \in ActualSchemas \cup {diffExpected} \cup TableCases
    /\ report = <<>>

CompareSchemas ==
    /\ report = <<>>
    /\ report' = <<compareSchemas(diffExpected, diffActual)>>
    /\ UNCHANGED <<diffExpected, diffActual>>
    /\ UNCHANGED <<replayVars, loaderVars, formatVars, writeVars>>

DiffNext == CompareSchemas

SpecDiff == DiffInit /\ [][DiffNext]_vars

Families == {"tables", "indexes", "views", "triggers", "rlsPolicies"}

\* the composite keys of one family of a schema model
FamilyKeys(s, family) ==
    CASE family = "tables" -> Range(MapSeq(TableKey, s.tables))
      [] family = "indexes" -> Range(MapSeq(IndexKey, s.indexes))
      [] family = "views" -> Range(MapSeq(ViewKey, s.views))
      [] family = "triggers" -> Range(MapSeq(TriggerKey, s.triggers))
      [] family = "rlsPolicies" -> Range(MapSeq(PolicyKey, s.rlsPolicies))

MissingList(d, family) ==
    CASE family = "tables" -> d.missingTables
      [] family = "indexes" -> d.missingIndexes
      [] family = "views" -> d.missingViews
      [] family = "triggers" -> d.missingTriggers
      [] family = "rlsPolicies" -> d.missingRLSPolicies

ExtraList(d, family) ==
    CASE family = "tables" -> d.extraTables
      [] family = "indexes" -> d.extraIndexes
      [] family = "views" -> d.extraViews
      [] family = "triggers" -> d.extraTriggers
      [] family = "rlsPolicies" -> d.extraRLSPolicies

\* C3: for each of the five families, missing lists exactly the keys of
\* expected that actual lacks and extra exactly the keys of actual that
\* expected lacks, each key once; when expected holds table public.orders
\* and actual does not, public.orders is reported missing and hasChanges is
\* true (and missingTables is [public.orders] when no other table is missing).
C3_MissingAndExtraByKey ==
    report # <<>> =>
        /\ \A f \in Families :
              /\ Range(MissingList(report[1], f))
                    = FamilyKeys(diffExpected, f) \ FamilyKeys(diffActual, f)
              /\ HasNoDuplicates(MissingList(report[1], f))
              /\ Range(ExtraList(report[1], f))
                    = FamilyKeys(diffActual, f) \ FamilyKeys(diffExpected, f)
              /\ HasNoDuplicates(ExtraList(report[1], f))
        /\ ("public.orders" \in FamilyKeys(diffExpected, "tables")
            /\ "public.orders" \notin FamilyKeys(diffActual, "tables"))
              => /\ report[1].hasChanges
                 /\ \E i \in 1..Len(report[1].missingTables) :
                       report[1].missingTables[i] = "public.orders"
                 /\ (FamilyKeys(diffExpected, "tables") \ FamilyKeys(diffActual, "tables")
                        = {"public.orders"})
                       => report[1].missingTables = <<"public.orders">>

C3_Witness ==
    /\ report # <<>>
    /\ report[1].missingTables = <<"public.orders">>
    /\ report[1].extraIndexes = <<"public.orders.idx">>
    /\ report[1].hasChanges

\* C4: diffing a schema model against an identical copy of itself yields
\* hasChanges = false, every missing, extra and modified list empty, and the
\* no-drift summary.
C4_NoDriftBaseline ==
    (report # <<>> /\ diffActual = diffExpected) =>
        /\ report[1].hasChanges = FALSE
        /\ \A f \in Families :
              MissingList(report[1], f) = <<>> /\ ExtraList(report[1], f) = <<>>
        /\ report[1].modifiedTables = <<>>
        /\ report[1].modifiedViews = <<>>
        /\ report[1].summary
              = "No schema drift detected. Database schema matches migrations."

C4_Witness ==
    /\ report # <<>>
    /\ diffActual = diffExpected
    /\ Len(diffExpected.tables) = 1
    /\ Len(diffExpected.views) = 1
    /\ report[1].hasChanges = FALSE

\* C5: in every report of compareSchemas, hasChanges is true exactly when a
\* missing, extra or modified list of some family is nonempty.
C5_HasChangesIffSomeList ==
    report # <<>> =>
        (report[1].hasChanges
            <=> \/ \E f \in Families :
                      MissingList(report[1], f) # <<>> \/ ExtraList(report[1], f) # <<>>
                \/ report[1].modifiedTables # <<>>
                \/ report[1].modifiedViews # <<>>)

C5_Witness ==
    /\ report # <<>>
    /\ report[1].hasChanges
    /\ report[1].modifiedViews # <<>>
    /\ report[1].modifiedTables = <<>>
    /\ \A f \in Families :
          MissingList(report[1], f) = <<>> /\ ExtraList(report[1], f) = <<>>

-----------------------------------------------------------------------------
(* Loader: the calls of MigrationParser and compareSchemaMigrations on a   *)
(* migrations directory.  readdir lists the files in an order of its own.  *)

\* directory listings: at most MaxFiles files, no two of one name, any order
Listings ==
    {l \in SeqsUpTo(LoaderFiles, MaxFiles) :
        \A i, j \in 1..Len(l) : l[i].filename = l[j].filename => i = j}

LedgerVersions == {"20240101000000", "20240102000000", "20240103000000"}

\* what getAppliedMigrations returns: rows in applied_at order, one per
\* version, applied in any order of the versions
Ledgers ==
    {[i \in 1..Len(vs) |-> [version |-> vs[i], appliedAt |-> i]] :
        vs \in {q \in SeqsUpTo(LedgerVersions, MaxApplied) :
                   \A i, j \in 1..Len(q) : q[i] = q[j] => i = j}}

LoaderLiveSchema ==
    [EmptySchema EXCEPT
        !.tables = <<[schema |-> "public", name |-> "foo",
                      columns |-> <<LiveColumn("bar", "integer")>>,
                      constraints |-> <<>>]>>]

LoaderInit ==
    /\ ReplayIdle
    /\ WriteIdle
    /\ DiffIdle
    /\ FormatIdle
    /\ dir \in Listings
    /\ ledger = <<>>
    /\ result = <<>>
    /\ fault = NoFault

ParseMigrationFiles ==
    /\ result = <<>>
    /\ result' = IF Thrown(dir, fault) # ""
                  THEN [op |-> "parseMigrationFiles", threw |-> Thrown(dir, fault)]
                  ELSE [op |-> "parseMigrationFiles", threw |-> "",
                        files |-> parseMigrationFiles(Loaded(dir, fault))]
    /\ ledger' = <<>>
    /\ UNCHANGED <<dir, fault, replayVars, diffVars, formatVars, writeVars>>

AnalyzeMigrations ==
    /\ result = <<>>
    /\ result' = IF Thrown(dir, fault) # ""
                  THEN [op |-> "analyzeMigrations", threw |-> Thrown(dir, fault)]
                  ELSE [op |-> "analyzeMigrations", threw |-> "",
                        returned |-> analyzeMigrations(Loaded(dir, fault))]
    /\ ledger' = <<>>
    /\ UNCHANGED <<dir, fault, replayVars, diffVars, formatVars, writeVars>>

GetMigrationHistory ==
    /\ result = <<>>
    /\ \E applied \in Ledgers :
          /\ ledger' = applied
          /\ result' = IF Thrown(dir, fault) # ""
                        THEN [op |-> "getMigrationHistory", threw |-> Thrown(dir, fault)]
                        ELSE [op |-> "getMigrationHistory", threw |-> "",
                              returned |-> getMigrationHistory(Loaded(dir, fault), applied)]
    /\ UNCHANGED <<dir, fault, replayVars, diffVars, formatVars, writeVars>>

CompareSchemaMigrations ==
    /\ result = <<>>
    /\ \E applied \in Ledgers, includeDetails \in BOOLEAN :
          /\ ledger' = applied
          /\ result' = [op |-> "compareSchemaMigrations", threw |-> "",
                        returned |->
                           IF Thrown(dir, fault) # ""
                           THEN [success |-> FALSE, error |-> Thrown(dir, fault)]
                           ELSE compareSchemaMigrations(includeDetails, LoaderLiveSchema,
                                                        applied, Loaded(dir, fault))]
    /\ UNCHANGED <<dir, fault, replayVars, diffVars, formatVars, writeVars>>

LoaderNext ==
    ParseMigrationFiles \/ AnalyzeMigrations \/ GetMigrationHistory
        \/ CompareSchemaMigrations

SpecLoader == LoaderInit /\ [][LoaderNext]_vars

Called(op) == result # <<>> /\ result.op = op

FilenameOf(f) == f.filename
LedgerSet == {ledger[i].version : i \in 1..Len(ledger)}
InDir(name) == \E i \in 1..Len(dir) : dir[i].filename = name
ValidInDir(name) ==
    \E i \in 1..Len(dir) : dir[i].filename = name /\ ParsedFile[dir[i]].hasValidStructure

\* the drift reported for table public.foo, <<>> when none is
FooDrift(d) ==
    LET IsFoo(td) == td.tableName = "public.foo"
    IN SelectSeq(d.modifiedTables, IsFoo)

\* C7: compareSchemaMigrations folds exactly the structurally valid files
\* whose version is in the ledger, each once, in ascending version order,
\* whatever the order of the ledger rows; a pending migration contributes
\* nothing.  With a = CREATE TABLE foo (01), c = ADD COLUMN bar (02) and
\* b = DROP COLUMN bar (03) against a live foo(bar): all three applied leave
\* foo without bar; a and c applied leave foo with bar; a alone applied,
\* c pending, leaves foo without bar.
C7_FoldsAppliedInVersionOrder ==
    Called("compareSchemaMigrations") =>
        LET replayed == result.returned.replayed
            names == MapSeq(FilenameOf, replayed)
            applied == {dir[i].filename : i \in
                           {j \in 1..Len(dir) :
                               /\ endsWith(dir[j].filename, ".sql")
                               /\ ParsedFile[dir[j]].hasValidStructure
                               /\ extractVersion(dir[j].filename) \in LedgerSet}}
            foo == FooDrift(result.returned.data.drift)
            abc == ValidInDir("20240101000000_a.sql") /\ ValidInDir("20240102000000_c.sql")
        IN /\ Range(names) = applied
           /\ HasNoDuplicates(names)
           /\ \A i \in 1..(Len(replayed) - 1) :
                 localeCompare(replayed[i].version, replayed[i + 1].version) <= 0
           /\ (abc /\ InDir("20240103000000_b.sql") /\ LedgerSet = LedgerVersions)
                 => Len(foo) = 1 /\ foo[1].extraColumns = <<"bar">>
           /\ (abc /\ LedgerSet = {"20240101000000", "20240102000000"})
                 => Len(foo) = 1 /\ foo[1].extraColumns = <<>>
           /\ (abc /\ LedgerSet = {"20240101000000"})
                 => Len(foo) = 1 /\ foo[1].extraColumns = <<"bar">>

C7_Witness ==
    /\ Called("compareSchemaMigrations")
    /\ MapSeq(FilenameOf, dir)
          = <<"20240103000000_b.sql", "20240102000000_c.sql", "20240101000000_a.sql">>
    /\ ValidInDir("20240102000000_c.sql")
    /\ Len(ledger) = 2
    /\ ledger[1].version = "20240103000000"
    /\ ledger[2].version = "20240101000000"
    /\ MapSeq(FilenameOf, result.returned.replayed)
          = <<"20240101000000_a.sql", "20240103000000_b.sql">>
    /\ result.returned.data.pendingMigrations = 1

SqlFilesOf(listing) == {i \in 1..Len(listing) : endsWith(listing[i].filename, ".sql")}

\* C8: parseMigrationFiles returns the .sql files of the directory, each
\* once, sorted ascending by version whatever the order of the listing: of
\* two adjacent results the earlier version does not compare greater than the
\* later one, and a directory of 20240101000000_a.sql, 20240103000000_b.sql
\* and 20240102000000_c.sql loads as [a, c, b].
C8_SortedByVersion ==
    Called("parseMigrationFiles") =>
        LET files == result.files
            names == MapSeq(FilenameOf, files)
        IN /\ \A i \in 1..(Len(files) - 1) :
                 localeCompare(files[i].parsed.version, files[i + 1].parsed.version) <= 0
           /\ Range(names) = {dir[i].filename : i \in SqlFilesOf(dir)}
           /\ Len(names) = Cardinality(SqlFilesOf(dir))
           /\ Range(MapSeq(FilenameOf, dir))
                 = {"20240101000000_a.sql", "20240103000000_b.sql", "20240102000000_c.sql"}
                 => names = <<"20240101000000_a.sql", "20240102000000_c.sql",
                              "20240103000000_b.sql">>

C8_Witness ==
    /\ Called("parseMigrationFiles")
    /\ MapSeq(FilenameOf, dir)
          = <<"20240101000000_a.sql", "20240103000000_b.sql", "20240102000000_c.sql">>
    /\ MapSeq(FilenameOf, result.files)
          = <<"20240101000000_a.sql", "20240102000000_c.sql", "20240103000000_b.sql">>

CountIn(q, x) == Cardinality({i \in 1..Len(q) : q[i] = x})

\* C9: analyzeMigrations reports duplicate versions without dropping files.
\* When two or more loaded files share a version v, duplicateVersions holds
\* v exactly once, errors holds a DUPLICATE_VERSION entry naming v, and each
\* of the colliding files is in the loaded list; a version only one file
\* carries is not in duplicateVersions.
C9_DuplicateVersionsReported ==
    Called("analyzeMigrations") =>
        LET files == result.returned.files
            analysis == result.returned.analysis
            Carriers(v) == {i \in SqlFilesOf(dir) : extractVersion(dir[i].filename) = v}
            versions == {extractVersion(dir[i].filename) : i \in SqlFilesOf(dir)} \ {""}
        IN /\ \A v \in versions :
                 /\ Cardinality(Carriers(v)) >= 2 =>
                       /\ CountIn(analysis.duplicateVersions, v) = 1
                       /\ \E e \in 1..Len(analysis.errors) :
                             /\ analysis.errors[e].type = "DUPLICATE_VERSION"
                             /\ analysis.errors[e].message
                                   = "Version " \o v \o " appears in multiple migration files"
                       /\ \A i \in Carriers(v) :
                             CountIn(MapSeq(FilenameOf, files), dir[i].filename) = 1
                 /\ Cardinality(Carriers(v)) = 1 =>
                       CountIn(analysis.duplicateVersions, v) = 0
           /\ analysis.totalFiles = Cardinality(SqlFilesOf(dir))

C9_Witness ==
    /\ Called("analyzeMigrations")
    /\ InDir("20240101000000_a.sql")
    /\ InDir("20240101000000_d.sql")
    /\ Len(dir) = 3
    /\ result.returned.analysis.duplicateVersions = <<"20240101000000">>
    /\ result.returned.analysis.totalFiles = 3
    /\ Len(result.returned.files) = 3

-----------------------------------------------------------------------------
(* Format: formatMigrationContent applied to an up and a down text, and    *)
(* parseMigrationContent applied to the text it returns.                   *)

\* the texts handed in as upSql and downSql
FormatSqls ==
    {"CREATE TABLE foo;",
     "  CREATE TABLE foo;\n",
     "DROP TABLE foo;",
     "SELECT 1;\n\nSELECT 2;",
     "\tDROP TABLE bar;  ",
     "-- migrate:down\nDROP TABLE foo;",
     "DROP TABLE bar;\n-- migrate:up\nCREATE TABLE bar;",
     "  -- migrate:up to the next release\nSELECT 1;",
     "SELECT '-- migrate:up';",
     "SELECT '-- migrate:down';"}

GeneratedFilename == "20240101000000_generated.sql"

FormatInit ==
    /\ ReplayIdle
    /\ WriteIdle
    /\ DiffIdle
    /\ LoaderIdle
    /\ fmtUpSql \in FormatSqls
    /\ fmtDownSql \in FormatSqls
    /\ fmtContent = <<>>
    /\ fmtParsed = <<>>

FormatMigrationContent ==
    /\ fmtContent = <<>>
    /\ fmtContent' = <<formatMigrationContent(fmtUpSql, fmtDownSql)>>
    /\ UNCHANGED <<fmtUpSql, fmtDownSql, fmtParsed>>
    /\ UNCHANGED <<replayVars, diffVars, loaderVars, writeVars>>

ParseMigrationContent ==
    /\ fmtContent # <<>>
    /\ fmtParsed = <<>>
    /\ fmtParsed' = <<parseMigrationContent(GeneratedFilename, fmtContent[1])>>
    /\ UNCHANGED <<fmtUpSql, fmtDownSql, fmtContent>>
    /\ UNCHANGED <<replayVars, diffVars, loaderVars, writeVars>>

FormatNext == FormatMigrationContent \/ ParseMigrationContent

SpecFormat == FormatInit /\ [][FormatNext]_vars

Occurrences(s, p) == Cardinality({i \in 1..Len(s) : OccursAt(s, p, i)})

\* C10: format/parse round trip.  For every upSql and downSql,
\* parseMigrationContent of formatMigrationContent(upSql, downSql) returns
\* upSql and downSql equal to the inputs up to surrounding whitespace, and
\* the formatted text holds each of the markers "-- migrate:up" and
\* "-- migrate:down" exactly once.
C10_RoundTrip ==
    fmtParsed # <<>> =>
        /\ fmtParsed[1].upSql = trim(fmtUpSql)
        /\ fmtParsed[1].downSql = trim(fmtDownSql)
        /\ Occurrences(fmtContent[1], MarkerUp) = 1
        /\ Occurrences(fmtContent[1], MarkerDown) = 1

-----------------------------------------------------------------------------
(* Intake: parseMigrationFiles and analyzeMigrations on directories that   *)
(* hold defective files and entries that are not migration files, with and *)
(* without a failing filesystem call.                                      *)

IntakeListings ==
    {l \in SeqsUpTo(IntakeFiles, MaxFiles) :
        \A i, j \in 1..Len(l) : l[i].filename = l[j].filename => i = j}

\* the directory does not exist or cannot be listed; a listed file is gone
\* (removed after readdir listed it, or a dangling link) or cannot be read
Faults ==
    {NoFault,
     [at |-> "readdir", code |-> "ENOENT", filename |-> ""],
     [at |-> "readdir", code |-> "EACCES", filename |-> ""],
     [at |-> "readFile", code |-> "ENOENT", filename |-> "20240101000000_a.sql"],
     [at |-> "readFile", code |-> "EACCES", filename |-> "20240101000000_a.sql"]}

IntakeInit ==
    /\ ReplayIdle
    /\ WriteIdle
    /\ DiffIdle
    /\ FormatIdle
    /\ fault \in Faults
    /\ dir \in IF fault.at = "readdir" THEN {<<>>} ELSE IntakeListings
    /\ ledger = <<>>
    /\ result = <<>>

IntakeNext == ParseMigrationFiles \/ AnalyzeMigrations

SpecIntake == IntakeInit /\ [][IntakeNext]_vars

\* the validation errors of each file of IntakeFiles, from its name and text
DefectsOf(filename) ==
    CASE filename = "20240102000000_nodown.sql"
            -> <<"Missing or empty migrate:down section">>
      [] filename = "20240104000000_noup.sql"
            -> <<"Missing or empty migrate:up section">>
      [] filename = "notes.sql"
            -> <<"Invalid filename format: unable to extract version">>
      [] OTHER -> <<>>

SqlNamesOf(listing) == {listing[i].filename : i \in SqlFilesOf(listing)}

\* C11: a structural validation error (no version in the filename, empty up
\* section, empty down section) is recorded for its file only and never
\* aborts loading.  When no filesystem call fails, parseMigrationFiles
\* returns every .sql file of the directory once, each with exactly its own
\* error messages and hasValidStructure false exactly when it has some, and
\* analyzeMigrations lists one PARSE_ERROR entry naming the file for each of
\* these messages and no other.
C11_ValidationErrorsPerFile ==
    /\ (Called("parseMigrationFiles") /\ fault = NoFault) =>
          /\ result.threw = ""
          /\ Len(result.files) = Cardinality(SqlNamesOf(dir))
          /\ \A name \in SqlNamesOf(dir) :
                \E j \in 1..Len(result.files) :
                   /\ result.files[j].filename = name
                   /\ result.files[j].parsed.errors = DefectsOf(name)
                   /\ result.files[j].parsed.hasValidStructure = (DefectsOf(name) = <<>>)
    /\ (Called("analyzeMigrations") /\ fault = NoFault) =>
          LET errors == result.returned.analysis.errors
              IsParseError(e) == e.type = "PARSE_ERROR"
          IN /\ result.threw = ""
             /\ result.returned.analysis.totalFiles = Cardinality(SqlNamesOf(dir))
             /\ \A e \in Range(SelectSeq(errors, IsParseError)) :
                   /\ e.filename \in SqlNamesOf(dir)
                   /\ e.message \in Range(DefectsOf(e.filename))
             /\ \A name \in SqlNamesOf(dir) :
                   \A m \in Range(DefectsOf(name)) :
                      CountIn(errors, [filename |-> name, type |-> "PARSE_ERROR",
                                       message |-> m]) = 1

C11_Witness ==
    /\ Called("analyzeMigrations")
    /\ fault = NoFault
    /\ SqlNamesOf(dir) = {"20240101000000_a.sql", "20240104000000_noup.sql", "notes.sql"}
    /\ result.returned.analysis.totalFiles = 3
    /\ result.returned.analysis.invalidMigrations = 2
    /\ Len(result.returned.analysis.errors) = 2

\* a filesystem call of parseMigrationFiles fails, and the failure is not
\* that the directory does not exist
OtherFailure ==
    \/ fault.at = "readdir" /\ fault.code # "ENOENT"
    \/ fault.at = "readFile" /\ fault.filename \in SqlNamesOf(dir)

\* C12: parseMigrationFiles returns an empty list without raising when the
\* migrations directory does not exist or is empty, and every filesystem
\* failure other than the directory's nonexistence reaches the caller as an
\* error, never as an empty or partial result.
C12_OnlyMissingDirectoryIsEmpty ==
    Called("parseMigrationFiles") =>
        /\ ((fault.at = "readdir" /\ fault.code = "ENOENT") \/ (fault = NoFault /\ dir = <<>>))
              => (result.threw = "" /\ result.files = <<>>)
        /\ OtherFailure => result.threw = fault.code

\* ^\d{14}_.+\.sql$
MatchesMigrationName(filename) ==
    /\ Len(filename) >= 20
    /\ \A i \in 1..14 : CharAt(filename, i) \in DigitChars
    /\ CharAt(filename, 15) = "_"
    /\ SubSeq(filename, Len(filename) - 3, Len(filename)) = ".sql"

\* C13 as stated: parseMigrationFiles loads exactly the directory entries
\* whose names match ^\d{14}_.+\.sql$; an entry whose name does not match is
\* never part of the loaded list.
C13_LoadsPatternNamesOnly ==
    (Called("parseMigrationFiles") /\ fault = NoFault) =>
        Range(MapSeq(FilenameOf, result.files))
            = {dir[i].filename : i \in {j \in 1..Len(dir) : MatchesMigrationName(dir[j].filename)}}

\* C13 as amended: parseMigrationFiles loads only directory entries whose
\* names end in .sql, and, when no filesystem call fails, every one of them,
\* whether or not the name matches ^\d{14}_.+\.sql$; an entry whose name does
\* not end in .sql is never part of the loaded list.
C13_LoadsSqlNames ==
    (Called("parseMigrationFiles") /\ result.threw = "") =>
        LET loaded == Range(MapSeq(FilenameOf, result.files))
            sqlNames == {dir[i].filename : i \in
                            {j \in 1..Len(dir) :
                                /\ Len(dir[j].filename) >= 4
                                /\ SubSeq(dir[j].filename, Len(dir[j].filename) - 3,
                                          Len(dir[j].filename)) = ".sql"}}
        IN /\ loaded \subseteq sqlNames
           /\ fault = NoFault => loaded = sqlNames

C13_Witness ==
    /\ Called("parseMigrationFiles")
    /\ fault = NoFault
    /\ InDir("README.md")
    /\ InDir("notes.sql")
    /\ InDir("2024_x.sql")
    /\ Range(MapSeq(FilenameOf, result.files)) = {"notes.sql", "2024_x.sql"}

-----------------------------------------------------------------------------
(* Migration history *)

ValidFiles == {i \in 1..Len(dir) : ParsedFile[dir[i]].hasValidStructure}
LoadedFiles == 1..Len(dir)

\* the history returned for dir and ledger, when the pending list is to hold
\* the files of dir at the indices candidates whose version is unapplied
HistoryPartitions(candidates) ==
    LET h == result.returned
        chain == h.migrationChain
        pendingNames == MapSeq(FilenameOf, h.pendingMigrations)
        Annotated(k) == chain[k].appliedAt # Undefined
    IN /\ \A i \in candidates :
             CountIn(pendingNames, dir[i].filename)
                 = IF ParsedFile[dir[i]].version \in LedgerSet THEN 0 ELSE 1
       /\ Range(pendingNames) \subseteq {dir[i].filename : i \in candidates}
       /\ Len(chain) = Cardinality(ValidFiles)
       /\ Range(MapSeq(FilenameOf, chain)) = {dir[i].filename : i \in ValidFiles}
       /\ \A k \in 1..(Len(chain) - 1) :
             localeCompare(chain[k].version, chain[k + 1].version) <= 0
       /\ \A k \in 1..Len(chain) :
             /\ Annotated(k) <=> chain[k].version \in LedgerSet
             /\ \A i \in 1..Len(ledger) :
                   ledger[i].version = chain[k].version
                       => chain[k].appliedAt = Some(ledger[i].appliedAt)
             /\ Annotated(k) <=> chain[k].filename \notin Range(pendingNames)

\* C14 as stated: pendingMigrations is exactly the loaded migrations whose
\* version is not in the applied set, migrationChain is all valid loaded
\* migrations in ascending version order, a chain entry carries appliedAt
\* iff its version occurs in the applied list, with that record's timestamp,
\* and every chain entry is either pending or annotated, never both.
C14_PendingAreLoadedUnapplied ==
    (Called("getMigrationHistory") /\ result.threw = "") => HistoryPartitions(LoadedFiles)

\* C14 as amended: pendingMigrations is exactly the structurally valid
\* loaded migrations whose version is not in the applied set (a file with a
\* validation error is in neither list), migrationChain is all valid loaded
\* migrations in ascending version order, a chain entry carries appliedAt
\* iff its version occurs in the applied list, with that record's timestamp,
\* and every chain entry is either pending or annotated, never both.
C14_PendingAreValidUnapplied ==
    (Called("getMigrationHistory") /\ result.threw = "") => HistoryPartitions(ValidFiles)

C14_Witness ==
    /\ Called("getMigrationHistory")
    /\ InDir("20240102000000_c.sql")
    /\ ~ValidInDir("20240102000000_c.sql")
    /\ LedgerSet = {"20240101000000"}
    /\ MapSeq(FilenameOf, result.returned.pendingMigrations) = <<"20240103000000_b.sql">>
    /\ MapSeq(FilenameOf, result.returned.migrationChain)
          = <<"20240101000000_a.sql", "20240103000000_b.sql">>
    /\ result.returned.migrationChain[1].appliedAt = Some(1)
    /\ result.returned.migrationChain[2].appliedAt = Undefined

\* C15: lastAppliedVersion is the version of an applied record whose
\* appliedAt no other record exceeds, whatever the order of the version
\* strings: with 20240103000000 applied first and 20240101000000 applied
\* after it, 20240101000000 is reported.  It is undefined when the applied
\* list is empty.
C15_LastAppliedByTimestamp ==
    (Called("getMigrationHistory") /\ result.threw = "") =>
        LET last == result.returned.lastAppliedVersion
        IN /\ ledger = <<>> => last = Undefined
           /\ ledger # <<>> =>
                 \E i \in 1..Len(ledger) :
                    /\ last = Some(ledger[i].version)
                    /\ \A j \in 1..Len(ledger) : ledger[j].appliedAt <= ledger[i].appliedAt
           /\ (/\ Len(ledger) = 2
               /\ ledger[1] = [version |-> "20240103000000", appliedAt |-> 1]
               /\ ledger[2] = [version |-> "20240101000000", appliedAt |-> 2])
                 => last = Some("20240101000000")

C15_Witness ==
    /\ Called("getMigrationHistory")
    /\ Len(ledger) = 2
    /\ ledger[1].version = "20240103000000"
    /\ ledger[2].version = "20240101000000"
    /\ ledger[1].appliedAt < ledger[2].appliedAt
    /\ result.returned.lastAppliedVersion = Some("20240101000000")

-----------------------------------------------------------------------------
(* Replay of views, triggers, policies, indexes and unclassified statements *)

\* the replay has ended and the last migration replayed has this up SQL
LastReplayed(upSql) ==
    /\ pc = "done"
    /\ Len(migrations) >= 1
    /\ migrations[Len(migrations)].upSql = upSql

\* the expected model before the last migration was replayed
BeforeLast == buildExpectedSchemaFromMigrations(SubSeq(migrations, 1, Len(migrations) - 1))

ViewsAt(s, key) == LET AtKey(v) == ViewKey(v) = key IN SelectSeq(s.views, AtKey)
IndexKeys(s) == {IndexKey(s.indexes[i]) : i \in 1..Len(s.indexes)}

\* C16: after a migration whose up SQL is CREATE VIEW v AS ... or
\* CREATE OR REPLACE VIEW v AS ... is replayed, the expected model holds
\* exactly one view at key public.v and its definition is the raw text of
\* that statement, also when a view with this key was there before.
C16_CreateViewSupersedes ==
    /\ LastReplayed("CREATE OR REPLACE VIEW v AS SELECT 1;") =>
          /\ Len(ViewsAt(schema, "public.v")) = 1
          /\ ViewsAt(schema, "public.v")[1].definition = "CREATE OR REPLACE VIEW v AS SELECT 1"
    /\ LastReplayed("CREATE VIEW v AS SELECT 2") =>
          /\ Len(ViewsAt(schema, "public.v")) = 1
          /\ ViewsAt(schema, "public.v")[1].definition = "CREATE VIEW v AS SELECT 2"

\* C17: after CREATE TRIGGER trg ... ON foo and CREATE POLICY pol ON foo are
\* replayed the expected model holds a trigger at key public.foo.trg and a
\* policy at key public.foo.pol; after the matching DROP TRIGGER, DROP POLICY
\* and DROP VIEW are replayed nothing is left at these keys, and the views,
\* triggers and policies at other keys are the ones that were there before.
C17_CreateAndDropSymmetric ==
    /\ LastReplayed("CREATE TRIGGER trg BEFORE INSERT ON foo EXECUTE FUNCTION f();\nCREATE POLICY pol ON foo;") =>
          /\ \E i \in 1..Len(schema.triggers) : TriggerKey(schema.triggers[i]) = "public.foo.trg"
          /\ \E i \in 1..Len(schema.rlsPolicies) : PolicyKey(schema.rlsPolicies[i]) = "public.foo.pol"
          /\ schema.views = BeforeLast.views
    /\ LastReplayed("DROP TRIGGER trg ON foo;\nDROP POLICY pol ON foo;") =>
          /\ \A i \in 1..Len(schema.triggers) : TriggerKey(schema.triggers[i]) # "public.foo.trg"
          /\ \A i \in 1..Len(schema.rlsPolicies) : PolicyKey(schema.rlsPolicies[i]) # "public.foo.pol"
          /\ schema.views = BeforeLast.views
    /\ LastReplayed("DROP VIEW v;") =>
          /\ ViewsAt(schema, "public.v") = <<>>
          /\ schema.triggers = BeforeLast.triggers
          /\ schema.rlsPolicies = BeforeLast.rlsPolicies

\* C18: after CREATE INDEX i ON t is replayed the expected model holds an
\* index at key public.t.i, and after DROP INDEX i is replayed the indexes
\* of at most one composite key are gone: every index that was there before
\* under another key, an index named i on another schema or table included,
\* is still there.
C18_DropIndexRemovesOneKey ==
    /\ LastReplayed("CREATE INDEX i ON t (c);") => "public.t.i" \in IndexKeys(schema)
    /\ LastReplayed("DROP INDEX i;") =>
          \E dropped \in IndexKeys(BeforeLast) \cup {""} :
             IndexKeys(schema) = IndexKeys(BeforeLast) \ {dropped}

\* CREATE TABLE, DROP TABLE, ALTER TABLE ... ADD COLUMN, ALTER TABLE ... DROP
\* COLUMN, CREATE [UNIQUE] INDEX, DROP INDEX, CREATE [OR REPLACE] VIEW, DROP
\* VIEW, CREATE TRIGGER, DROP TRIGGER, CREATE POLICY, DROP POLICY
MatchesNoPattern(statement) ==
    LET u == toUpperCase(statement)
    IN /\ \A prefix \in {"CREATE TABLE", "DROP TABLE", "CREATE INDEX", "CREATE UNIQUE INDEX",
                         "DROP INDEX", "CREATE VIEW", "CREATE OR REPLACE VIEW", "DROP VIEW",
                         "CREATE TRIGGER", "DROP TRIGGER", "CREATE POLICY", "DROP POLICY"} :
             ~startsWith(u, prefix)
       /\ ~(startsWith(u, "ALTER TABLE")
              /\ (includes(u, "ADD COLUMN") \/ includes(u, "DROP COLUMN")))

RECURSIVE JoinStatements(_)
JoinStatements(statements) ==
    IF statements = <<>> THEN ""
    ELSE Head(statements) \o ";\n" \o JoinStatements(Tail(statements))

\* the up SQL without its statements that match no DDL pattern
WithoutOther(upSql) ==
    LET Kept(st) == Len(st) > 0 /\ ~MatchesNoPattern(st)
    IN JoinStatements(SelectSeq(MapSeq(trim, split(upSql, ";")), Kept))

HasOther(upSql) ==
    \E st \in Range(MapSeq(trim, split(upSql, ";"))) : Len(st) > 0 /\ MatchesNoPattern(st)

\* C19: a statement that matches none of the DDL patterns produces no model
\* mutation: the expected model a replay ends with is the one the replay of
\* the same list with those statements removed ends with.
C19_OtherStatementsIgnored ==
    pc = "done" =>
        schema = buildExpectedSchemaFromMigrations(
                     [i \in 1..Len(migrations) |-> [upSql |-> WithoutOther(migrations[i].upSql)]])

C19_Witness ==
    /\ pc = "done"
    /\ Len(migrations) = 2
    /\ migrations[1].upSql = "UPDATE foo SET bar = 1;\nCREATE TABLE baz (id int);\nINSERT INTO log (msg) VALUES ('drop table baz')"
    /\ migrations[2].upSql = "INSERT INTO foo (bar) VALUES ('x');"
    /\ HasOther(migrations[1].upSql)
    /\ WithoutOther(migrations[1].upSql) = "CREATE TABLE baz (id int);\n"
    /\ WithoutOther(migrations[2].upSql) = ""
    /\ MapSeq(TableKey, schema.tables) = <<"public.baz">>

-----------------------------------------------------------------------------
(* Table diff *)

ComparedProperties ==
    {"dataType", "isNullable", "defaultValue", "characterMaximumLength",
     "numericPrecision", "numericScale"}

\* a property without a value, whether the field is absent or null
HasNoValue(v) == v = Undefined \/ v = Null

\* the properties whose values differ between two columns
DifferingProperties(e, a) ==
    {p \in ComparedProperties :
        IF p \in {"dataType", "isNullable"} THEN e[p] # a[p]
        ELSE e[p] # a[p] /\ ~(HasNoValue(e[p]) /\ HasNoValue(a[p]))}

\* the table diff the report is to hold for a table both sides hold once
TableDiffAsClaimed(e, a, drifts) ==
    LET eNames == Range(MapSeq(NameOf, e.columns))
        aNames == Range(MapSeq(NameOf, a.columns))
        eCons == Range(MapSeq(NameOf, e.constraints))
        aCons == Range(MapSeq(NameOf, a.constraints))
        Col(t, n) == t.columns[CHOOSE i \in 1..Len(t.columns) : t.columns[i].name = n]
        modified == {n \in eNames \cap aNames : DifferingProperties(Col(e, n), Col(a, n)) # {}}
        anyList == \/ eNames # aNames
                   \/ modified # {}
                   \/ eCons # aCons
    IN /\ Len(drifts) = IF anyList THEN 1 ELSE 0
       /\ anyList =>
             LET d == drifts[1]
                 PropertyOf(c) == c.property
                 ColumnNameOf(c) == c.columnName
             IN /\ Range(d.missingColumns) = eNames \ aNames
                /\ Range(d.extraColumns) = aNames \ eNames
                /\ Range(d.missingConstraints) = eCons \ aCons
                /\ Range(d.extraConstraints) = aCons \ eCons
                /\ HasNoDuplicates(d.missingColumns) /\ HasNoDuplicates(d.extraColumns)
                /\ HasNoDuplicates(d.missingConstraints) /\ HasNoDuplicates(d.extraConstraints)
                /\ Range(MapSeq(ColumnNameOf, d.modifiedColumns)) = modified
                /\ Len(d.modifiedColumns) = Cardinality(modified)
                /\ \A k \in 1..Len(d.modifiedColumns) :
                      LET c == d.modifiedColumns[k]
                          differing == DifferingProperties(Col(e, c.columnName),
                                                           Col(a, c.columnName))
                      IN /\ Range(MapSeq(PropertyOf, c.changes)) = differing
                         /\ Len(c.changes) = Cardinality(differing)

\* C20: for a table present in both models the diff works by column name:
\* missingColumns are the expected-only names, extraColumns the actual-only
\* names, a column present in both is in modifiedColumns iff one of dataType,
\* isNullable, defaultValue, characterMaximumLength, numericPrecision,
\* numericScale differs, with exactly one entry per differing property;
\* constraints are reported missing and extra by name, and the table is in
\* modifiedTables iff one of these lists is nonempty.
C20_TableDiffByColumn ==
    (/\ report # <<>>
     /\ Len(diffExpected.tables) = 1
     /\ Len(diffActual.tables) = 1
     /\ TableKey(diffExpected.tables[1]) = TableKey(diffActual.tables[1])) =>
        TableDiffAsClaimed(diffExpected.tables[1], diffActual.tables[1],
                           report[1].modifiedTables)

-----------------------------------------------------------------------------
(* Replay of tables and columns *)

SqlFooWithBar == "CREATE TABLE foo (id int);\nALTER TABLE foo ADD COLUMN bar text;"
SqlAppTable == "create table if not exists app.t (id int);\nCREATE UNIQUE INDEX i ON app.t (id);\n"
SqlDropFoo == "DROP TABLE IF EXISTS foo;"
SqlDropBar == "alter table public.foo drop column bar;"
SqlTriggerAndPolicy ==
    "CREATE TRIGGER trg BEFORE INSERT ON foo EXECUTE FUNCTION f();\nCREATE POLICY pol ON foo;"

\* C21: every column of the expected model has type text and is nullable,
\* and whenever a table and a column of the expected model both exist in the
\* live schema with a dataType other than text, the report lists the table
\* in modifiedTables with a dataType change for the column whose expected
\* value is text, and hasChanges is true.
C21_PlaceholderTypeFlagged ==
    pc = "done" =>
        \A i \in 1..Len(schema.tables) :
           \A j \in 1..Len(schema.tables[i].columns) :
              LET t == schema.tables[i]
                  c == t.columns[j]
              IN /\ c.dataType = "text"
                 /\ c.isNullable
                 /\ \A k \in 1..Len(currentSchema.tables) :
                       \A l \in 1..Len(currentSchema.tables[k].columns) :
                          LET lt == currentSchema.tables[k]
                              lc == lt.columns[l]
                          IN (/\ TableKey(lt) = TableKey(t)
                              /\ lc.name = c.name
                              /\ lc.dataType # "text") =>
                                /\ drift.hasChanges
                                /\ \E d \in Range(drift.modifiedTables) :
                                      /\ d.tableName = TableKey(t)
                                      /\ \E mc \in Range(d.modifiedColumns) :
                                            /\ mc.columnName = c.name
                                            /\ \E ch \in Range(mc.changes) :
                                                  /\ ch.property = "dataType"
                                                  /\ ch.expected = "text"
                                                  /\ ch.actual = lc.dataType

\* the trimmed statements of the migrations replayed, in replay order
RECURSIVE StatementsOf(_)
StatementsOf(migs) ==
    IF migs = <<>> THEN <<>>
    ELSE LET NonEmpty(st) == Len(st) > 0
         IN SelectSeq(MapSeq(trim, split(Head(migs).upSql, ";")), NonEmpty)
               \o StatementsOf(Tail(migs))

\* C24: CREATE TABLE inserts a table without columns and without
\* constraints at key schema.table whatever its body declares, and a column
\* is in a table of the expected model only if an ADD COLUMN for that table
\* and column was replayed after a CREATE TABLE for that table.
C24_CreateTableEmpty ==
    /\ LastReplayed(SqlCreateFoo) =>
          schema = [BeforeLast EXCEPT
                       !.tables = Append(@, [schema |-> "public", name |-> "foo",
                                             columns |-> <<>>, constraints |-> <<>>])]
    /\ LastReplayed(SqlAppTable) =>
          schema.tables = Append(BeforeLast.tables,
                                 [schema |-> "app", name |-> "t",
                                  columns |-> <<>>, constraints |-> <<>>])
    /\ pc = "done" =>
          \A i \in 1..Len(schema.tables) :
             \A j \in 1..Len(schema.tables[i].columns) :
                LET sts == StatementsOf(migrations)
                IN /\ TableKey(schema.tables[i]) = "public.foo"
                   /\ schema.tables[i].columns[j].name = "bar"
                   /\ \E p, q \in 1..Len(sts) :
                         /\ p < q
                         /\ sts[p] \in {"CREATE TABLE foo", "CREATE TABLE foo (id int)"}
                         /\ sts[q] \in {"ALTER TABLE foo ADD COLUMN bar",
                                        "ALTER TABLE foo ADD COLUMN bar text"}

C24_Witness ==
    /\ LastReplayed(SqlAppTable)
    /\ Len(migrations) = 2
    /\ migrations[1].upSql = SqlFooWithBar
    /\ MapSeq(TableKey, schema.tables) = <<"public.foo", "app.t">>
    /\ ColumnNames(schema.tables[1]) = <<"bar">>
    /\ schema.tables[2].columns = <<>>

\* the tables without column bar in the tables at key public.foo
WithoutBar(tables) ==
    [i \in 1..Len(tables) |->
        IF TableKey(tables[i]) = "public.foo"
        THEN LET NotBar(c) == c.name # "bar"
             IN [tables[i] EXCEPT !.columns = SelectSeq(@, NotBar)]
        ELSE tables[i]]

C27_DropTableDoesNotCascade ==
    LastReplayed(SqlDropFoo) =>
        /\ schema.indexes = BeforeLast.indexes
        /\ schema.triggers = BeforeLast.triggers
        /\ schema.rlsPolicies = BeforeLast.rlsPolicies
        /\ schema.views = BeforeLast.views
        /\ (Len(migrations) = 2 /\ migrations[1].upSql = SqlTriggerAndPolicy) =>
              /\ \E i \in 1..Len(schema.triggers) : schema.triggers[i].name = "trg"
              /\ "public.foo.pol" \in Range(MapSeq(PolicyKey, schema.rlsPolicies))
              /\ "public.foo.pol" \in Range(drift.missingRLSPolicies)
              /\ drift.missingTriggers # <<>>

\* C28: in every table of the expected model a replay ends with, no two
\* columns have the same name.
C28_ColumnNamesUnique ==
    pc = "done" =>
        \A i \in 1..Len(schema.tables) : HasNoDuplicates(ColumnNames(schema.tables[i]))

-----------------------------------------------------------------------------
(* Sections: parseMigrationContent on files of any layout of marker lines *)

\* the lines a migration file is made of
SectionLines ==
    {MarkerUp, "  -- migrate:down  ", "-- migrate:up transaction:false",
     "CREATE TABLE foo;", "  DROP TABLE foo;", ""}

SectionsInit ==
    /\ ReplayIdle
    /\ WriteIdle
    /\ DiffIdle
    /\ LoaderIdle
    /\ fmtUpSql = ""
    /\ fmtDownSql = ""
    /\ fmtContent \in {<<join(lines, "\n")>> : lines \in SeqsUpTo(SectionLines, MaxLines)}
    /\ fmtParsed = <<>>

SpecSections == SectionsInit /\ [][ParseMigrationContent]_vars

\* a marker line: a line whose text, trimmed, begins with the marker
IsMarkerLine(line, marker) ==
    LET text == trim(line)
    IN Len(text) >= Len(marker) /\ SubSeq(text, 1, Len(marker)) = marker

\* the section line i belongs to: that of the nearest marker line above it,
\* none for a marker line and for a line above every marker line
SectionAt(lines, i) ==
    LET IsMarker(j) == IsMarkerLine(lines[j], "-- migrate:up")
                         \/ IsMarkerLine(lines[j], "-- migrate:down")
        above == {j \in 1..(i - 1) : IsMarker(j)}
        nearest == CHOOSE j \in above : \A k \in above : k <= j
    IN IF IsMarker(i) \/ above = {} THEN "none"
       ELSE IF IsMarkerLine(lines[nearest], "-- migrate:up") THEN "up"
       ELSE "down"

RECURSIVE SectionText(_, _, _)
\* the lines i.. of the section, each with its line end
SectionText(lines, i, section) ==
    IF i > Len(lines) THEN ""
    ELSE (IF SectionAt(lines, i) = section THEN lines[i] \o "\n" ELSE "")
            \o SectionText(lines, i + 1, section)

\* C23: section splitting assigns each line to at most one section: the
\* lines after a '-- migrate:up' marker line and before the next marker line
\* or the end of the file make upSql, those after a '-- migrate:down' marker
\* line make downSql, and marker lines and the lines before the first marker
\* are in neither (a marker line being a line whose trimmed text begins with
\* the marker; upSql and downSql are the lines of the section, trimmed).
C23_LinesInOneSection ==
    fmtParsed # <<>> =>
        LET lines == split(fmtContent[1], "\n")
        IN /\ fmtParsed[1].upSql = trim(SectionText(lines, 1, "up"))
           /\ fmtParsed[1].downSql = trim(SectionText(lines, 1, "down"))

C23_Witness ==
    /\ fmtParsed # <<>>
    /\ fmtContent[1] = "  DROP TABLE foo;\n-- migrate:up transaction:false\nCREATE TABLE foo;\n  -- migrate:down  "
    /\ fmtParsed[1].upSql = "CREATE TABLE foo;"
    /\ fmtParsed[1].downSql = ""

-----------------------------------------------------------------------------
(* Summary *)

\* the lists of a report whose lengths are its counts
CountedLists(r) ==
    <<r.missingTables, r.extraTables, r.modifiedTables,
      r.missingIndexes, r.extraIndexes,
      r.missingViews, r.extraViews, r.modifiedViews,
      r.missingTriggers, r.extraTriggers,
      r.missingRLSPolicies, r.extraRLSPolicies>>

\* the comma-separated parts of a summary that reports drift
SummaryParts(summary) ==
    LET prefix == "Schema drift detected: "
        NonEmpty(part) == Len(part) > 0
    IN SelectSeq(MapSeq(trim, split(SubSeq(summary, Len(prefix) + 1, Len(summary) - 1), ",")),
                 NonEmpty)

\* C22: the summary is the fixed no-drift sentence exactly when hasChanges
\* is false; when hasChanges is true it is 'Schema drift detected: ', one
\* comma-separated part for each nonzero count of the report, and a full
\* stop, the parts for the tables being 'n table(s) missing from database',
\* 'n extra table(s) in database' and 'n table(s) have structural changes'.
C22_SummaryNamesNonzeroCounts ==
    report # <<>> =>
        LET r == report[1]
            lists == CountedLists(r)
            nonzero == {i \in 1..Len(lists) : Len(lists[i]) > 0}
            parts == SummaryParts(r.summary)
        IN /\ ~r.hasChanges <=>
                 r.summary = "No schema drift detected. Database schema matches migrations."
           /\ r.hasChanges =>
                 /\ SubSeq(r.summary, 1, 23) = "Schema drift detected: "
                 /\ SubSeq(r.summary, Len(r.summary), Len(r.summary)) = "."
                 /\ Len(parts) = Cardinality(nonzero)
                 /\ Len(r.missingTables) > 0 =>
                       ToString(Len(r.missingTables)) \o " table(s) missing from database"
                           \in Range(parts)
                 /\ Len(r.extraTables) > 0 =>
                       ToString(Len(r.extraTables)) \o " extra table(s) in database"
                           \in Range(parts)
                 /\ Len(r.modifiedTables) > 0 =>
                       ToString(Len(r.modifiedTables)) \o " table(s) have structural changes"
                           \in Range(parts)

-----------------------------------------------------------------------------
(* Counts of the analysis *)

\* C30: in every MigrationAnalysis, validMigrations + invalidMigrations =
\* totalFiles = the number of loaded files, validMigrations counts the files
\* without a validation error, migrationChain holds exactly the files with
\* hasValidStructure = true, as many as validMigrations, and every file
\* counted in missingDownMigrations (a file without down section) has
\* hasValidStructure = false and so is counted in invalidMigrations.
C30_CountsAddUp ==
    (Called("analyzeMigrations") /\ result.threw = "") =>
        LET a == result.returned.analysis
            files == result.returned.files
            Valid(f) == f.parsed.hasValidStructure
            sound == {i \in 1..Len(files) : DefectsOf(files[i].filename) = <<>>}
            noDown == {i \in 1..Len(files) : files[i].filename = "20240102000000_nodown.sql"}
        IN /\ a.totalFiles = Len(files)
           /\ a.validMigrations + a.invalidMigrations = a.totalFiles
           /\ a.validMigrations = Cardinality(sound)
           /\ MapSeq(FilenameOf, a.migrationChain) = MapSeq(FilenameOf, SelectSeq(files, Valid))
           /\ Len(a.migrationChain) = a.validMigrations
           /\ a.missingDownMigrations = Cardinality(noDown)
           /\ \A i \in noDown : ~Valid(files[i])
           /\ a.missingDownMigrations <= a.invalidMigrations

C30_Witness ==
    /\ Called("analyzeMigrations")
    /\ fault = NoFault
    /\ SqlNamesOf(dir) = {"20240101000000_a.sql", "20240102000000_nodown.sql", "notes.sql"}
    /\ result.returned.analysis.totalFiles = 3
    /\ result.returned.analysis.validMigrations = 1
    /\ result.returned.analysis.invalidMigrations = 2
    /\ result.returned.analysis.missingDownMigrations = 1
    /\ MapSeq(FilenameOf, result.returned.analysis.migrationChain) = <<"20240101000000_a.sql">>

-----------------------------------------------------------------------------
(* The tools that generate and preview a migration file *)

\* String(n).padStart(2, '0')
padStart2(n) == IF n < 10 THEN "0" \o ToString(n) ELSE ToString(n)

\* generateMigrationTimestamp when new Date() shows 2024-01-01 12:00:00 plus now seconds
generateMigrationTimestamp(now) ==
    LET year == "2024"
        month == padStart2(1)
        day == padStart2(1)
        hours == padStart2(12 + now \div 3600)
        minutes == padStart2((now \div 60) % 60)
        seconds == padStart2(now % 60)
    IN  year \o month \o day \o hours \o minutes \o seconds

RECURSIVE ReplaceUnsafe(_)
\* s.replace(/[^a-z0-9]/g, '_')
ReplaceUnsafe(s) ==
    IF Len(s) = 0 THEN ""
    ELSE IF Len(s) = 1 THEN (IF s \in LowerChars \cup DigitChars THEN s ELSE "_")
    ELSE ReplaceUnsafe(SubSeq(s, 1, Len(s) \div 2))
         \o ReplaceUnsafe(SubSeq(s, Len(s) \div 2 + 1, Len(s)))

\* generateMigrationFilename, which reads the clock itself
generateMigrationFilename(name, now) ==
    LET timestamp == generateMigrationTimestamp(now)
        safeName == ReplaceUnsafe(toLowerCase(name))
    IN  timestamp \o "_" \o safeName \o ".sql"

\* fs.writeFile with a flag that keeps a file that is already there
writeMigrationFileOnce(files, filename, content) ==
    IF \E f \in files : f.filename = filename THEN files
    ELSE files \cup {[filename |-> filename, content |-> content]}

\* writeMigrationFile: fs.writeFile creates the file or replaces its content
writeMigrationFile(files, filename, content) ==
    {f \in files : f.filename # filename}
        \cup {[filename |-> filename, content |-> content]}

\* ensureMigrationsDirectory: mkdir with recursive leaves the files of a
\* directory that exists as they are
ensureMigrationsDirectory(files) == files

\* generateMigration when the two reads of the clock show first and second
generateMigration(input, first, second) ==
    LET timestamp == generateMigrationTimestamp(first)
        filename == generateMigrationFilename(input.name, second)
        content == formatMigrationContent(input.upSql, input.downSql)
        migration == [version |-> timestamp,
                      name |-> input.name,
                      filename |-> filename,
                      upSql |-> input.upSql,
                      downSql |-> input.downSql]
    IN  [success |-> TRUE,
         data |-> [migration |-> migration,
                   content |-> content,
                   saved |-> input.saveToFile]]

\* previewMigration when the two reads of the clock show first and second
previewMigration(input, first, second) ==
    LET timestamp == generateMigrationTimestamp(first)
        filename == generateMigrationFilename(input.name, second)
        content == formatMigrationContent(input.upSql, input.downSql)
    IN  [success |-> TRUE,
         data |-> [filename |-> filename,
                   version |-> timestamp,
                   name |-> input.name,
                   content |-> IF input.format = "formatted" THEN <<content>>
                               ELSE <<input.upSql, input.downSql>>]]

MigrationNames == {"Add Users", "add_users"}

GenerateInputs ==
    [name : MigrationNames,
     upSql : {"CREATE TABLE users;", "CREATE TABLE users (id int);"},
     downSql : {"DROP TABLE users;"},
     saveToFile : BOOLEAN]

PreviewInputs ==
    [name : MigrationNames,
     upSql : {"CREATE TABLE users;"},
     downSql : {"DROP TABLE users;"},
     format : {"formatted", "raw"}]

WriteInit == ReplayIdle /\ DiffIdle /\ LoaderIdle /\ FormatIdle /\ WriteIdle

\* the seconds that may pass between the two reads of the clock of one call
Elapsed == {d \in {0, 1} : clock + d <= StartClock + MaxTicks}

\* a second passes between two calls
Tick ==
    /\ clock < StartClock + MaxTicks
    /\ clock' = clock + 1
    /\ UNCHANGED <<disk, calls>>
    /\ UNCHANGED <<replayVars, diffVars, loaderVars, formatVars>>

GenerateMigration ==
    /\ Len(calls) < MaxCalls
    /\ \E input \in GenerateInputs, d \in Elapsed :
         LET returned == generateMigration(input, clock, clock + d)
         IN  /\ clock' = clock + d
             /\ disk' = IF input.saveToFile
                        THEN writeMigrationFile(ensureMigrationsDirectory(disk),
                                                returned.data.migration.filename,
                                                returned.data.content)
                        ELSE disk
             /\ calls' = Append(calls, [tool |-> "generateMigration",
                                        input |-> input,
                                        returned |-> returned])
    /\ UNCHANGED <<replayVars, diffVars, loaderVars, formatVars>>

PreviewMigration ==
    /\ Len(calls) < MaxCalls
    /\ \E input \in PreviewInputs, d \in Elapsed :
         /\ clock' = clock + d
         /\ calls' = Append(calls, [tool |-> "previewMigration",
                                    input |-> input,
                                    returned |-> previewMigration(input, clock, clock + d)])
    /\ UNCHANGED disk
    /\ UNCHANGED <<replayVars, diffVars, loaderVars, formatVars>>

WriteNext == Tick \/ GenerateMigration \/ PreviewMigration

SpecWrite == WriteInit /\ [][WriteNext]_vars

\* the positions of the calls that wrote the file of that name
SavesOf(filename) ==
    {i \in 1..Len(calls) :
        /\ calls[i].tool = "generateMigration"
        /\ calls[i].input.saveToFile
        /\ calls[i].returned.data.migration.filename = filename}

SavedNames ==
    {calls[i].returned.data.migration.filename :
        i \in {j \in 1..Len(calls) : /\ calls[j].tool = "generateMigration"
                                     /\ calls[j].input.saveToFile}}

Max(S) == CHOOSE m \in S : \A n \in S : n <= m

\* C25: every saving generateMigration call reports success also when the file
\* is already there; the directory then holds one file of each written name,
\* with the content of the latest call that wrote it, and the files of other
\* names are as they were
C25_LaterWriteReplaces ==
    /\ \A i \in 1..Len(calls) : calls[i].returned.success
    /\ {f.filename : f \in disk} = {f.filename : f \in InitialFiles} \cup SavedNames
    /\ \A n \in SavedNames :
         {f \in disk : f.filename = n}
             = {[filename |-> n, content |-> calls[Max(SavesOf(n))].returned.data.content]}
    /\ \A f \in InitialFiles : f.filename \notin SavedNames => f \in disk

\* two saving calls produced the same filename with different contents
C25_Witness ==
    /\ Len(calls) = 2
    /\ SavesOf(calls[1].returned.data.migration.filename) = {1, 2}
    /\ calls[1].returned.data.content # calls[2].returned.data.content
    /\ Cardinality(disk) = 2

\* the version and the filename a call returned
VersionOf(call) ==
    IF call.tool = "generateMigration" THEN call.returned.data.migration.version
    ELSE call.returned.data.version

ReturnedFilenameOf(call) ==
    IF call.tool = "generateMigration" THEN call.returned.data.migration.filename
    ELSE call.returned.data.filename

\* C29: the version generateMigration and previewMigration return is the
\* 14-digit prefix of the filename they return, whatever the clock does
\* during the call
C29_VersionIsFilenamePrefix ==
    \A i \in 1..Len(calls) :
        VersionOf(calls[i]) = SubSeq(ReturnedFilenameOf(calls[i]), 1, 14)

====
